---------------------------- MODULE Spec2Model ----------------------------
(***************************************************************************)
(* Model of the Spock workflow scripts:                                    *)
(*   src/spock/zodan.py        add-node / remove-node workflows and their  *)
(*                             step executor (placeholders, extraction)    *)
(*   src/spock/cross_nodes.py  cross-wire / uncross-wire workflows and     *)
(*                             their step executor                         *)
(*                                                                         *)
(* Text is a sequence of tokens (strings).  The characters the code scans  *)
(* for are tokens of their own: "$" and each decimal digit of a            *)
(* placeholder or of a number the code formats; in an output text also     *)
(* "/", a leading "(", " " and "\n".  Every other token is a chunk of      *)
(* literal text that holds none of "$", "/" and "\n".                      *)
(*                                                                         *)
(* The workflow functions are modelled from their entry, with the module   *)
(* global NODES (zodan.py) or the argument nodes (cross_nodes.py) holding  *)
(* any endpoint list within the bounds.                                    *)
(***************************************************************************)
EXTENDS Integers, Sequences, FiniteSets, TLC

VARIABLES
    op,            \* the invocation: "add", "remove", "cross", "uncross", "subst", "extract"
    NODES,         \* zodan.py NODES / cross_nodes.py nodes: the endpoint list
    steps,         \* the built workflow (list of step dicts)
    pc,            \* position of the process
    i,             \* execute_steps: 1-based index of the current step
    sql,           \* execute_steps: the command of the current step, as dispatched
    step_outputs,  \* zodan.py execute_steps: captured value per step number
    calls,         \* every execute_sql call made, in order: [sql, conn_info]
    log,           \* every log_step line printed, in order
    exit_status,   \* process exit status (-1 while the process runs)
    failures,      \* number of dispatches that returned non-zero in this run
    returns,       \* the return code of every execute_sql call, in order
    stdout,        \* standard output of the last dispatch
    defined,       \* zodan.py while it loads: the module-level names bound so far
    catalog,       \* zodan.py while it loads: the rows of spock.node on the server
    fs,            \* the other scripts: the files and directories they look at
    input          \* the other scripts: arguments and configuration of the run

\* what the workflow runs leave alone
env == <<defined, catalog, fs, input>>

vars == <<op, NODES, steps, pc, i, sql, step_outputs, calls, log,
          exit_status, failures, returns, stdout, env>>

---------------------------------------------------------------------------
(* Bounds of the model *)

\* largest number of existing endpoints in NODES (zodan.py)
MaxNodes == 2
\* largest number of endpoints handed to cross_nodes.py
MaxCrossNodes == 3
\* largest number of dispatches that return non-zero in one run
MaxFailures == 2
\* pure substitution check: largest number of recorded steps
MaxKeys == 10
\* pure substitution check: largest command length, in tokens
MaxCmdLen == 3
\* pure extraction check: largest output length, in tokens
MaxOutLen == 4

---------------------------------------------------------------------------
(* Python helpers *)

\* dict.get(key, default)
Get(d, key, default) == IF key \in DOMAIN d THEN d[key] ELSE default

Digit == <<"0", "1", "2", "3", "4", "5", "6", "7", "8", "9">>

\* str(n) for a non-negative integer: its decimal digits
RECURSIVE Str(_)
Str(n) == IF n < 10 THEN <<Digit[n + 1]>>
          ELSE Str(n \div 10) \o <<Digit[(n % 10) + 1]>>

\* s.startswith(prefix)
StartsWith(s, prefix) ==
    /\ Len(s) >= Len(prefix)
    /\ SubSeq(s, 1, Len(prefix)) = prefix

\* s.replace(old, new), old non-empty: leftmost non-overlapping occurrences
RECURSIVE StrReplace(_, _, _)
StrReplace(s, old, new) ==
    IF Len(s) < Len(old) THEN s
    ELSE IF StartsWith(s, old)
         THEN new \o StrReplace(SubSeq(s, Len(old) + 1, Len(s)), old, new)
         ELSE <<Head(s)>> \o StrReplace(Tail(s), old, new)

IsSpace(c) == c \in {" ", "\n"}

\* s.lstrip()
RECURSIVE LStrip(_)
LStrip(s) == IF s # <<>> /\ IsSpace(Head(s)) THEN LStrip(Tail(s)) ELSE s

\* s.rstrip()
RECURSIVE RStrip(_)
RStrip(s) == IF s # <<>> /\ IsSpace(s[Len(s)])
             THEN RStrip(SubSeq(s, 1, Len(s) - 1)) ELSE s

\* s.strip()
Strip(s) == RStrip(LStrip(s))

\* s.splitlines(): the lines of s, a trailing line break opening no line
RECURSIVE SplitLinesFrom(_, _)
SplitLinesFrom(s, cur) ==
    IF s = <<>> THEN (IF cur = <<>> THEN <<>> ELSE <<cur>>)
    ELSE IF Head(s) = "\n" THEN <<cur>> \o SplitLinesFrom(Tail(s), <<>>)
    ELSE SplitLinesFrom(Tail(s), Append(cur, Head(s)))

SplitLines(s) == SplitLinesFrom(s, <<>>)

\* reversed(seq)
Reversed(s) == [k \in 1..Len(s) |-> s[Len(s) + 1 - k]]

---------------------------------------------------------------------------
(* Endpoints.  A connection string is kept as its space-separated          *)
(* key=value fields, in order; DsnStr is the string itself.                *)

Dsn(port) == << <<"host", "127.0.0.1">>, <<"dbname", "pgedge">>,
                <<"port", port>>, <<"user", "pgedge">>,
                <<"password", "pgedge">> >>

RECURSIVE DsnStr(_)
DsnStr(dsn) ==
    IF dsn = <<>> THEN ""
    ELSE IF Len(dsn) = 1 THEN dsn[1][1] \o "=" \o dsn[1][2]
    ELSE dsn[1][1] \o "=" \o dsn[1][2] \o " " \o DsnStr(Tail(dsn))

\* conn_info.split(' ')[1].split('=')[1]
SecondFieldValue(dsn) == dsn[2][2]

Endpoint(name, port) ==
    [name |-> name, dsn |-> Dsn(port),
     location |-> "Los Angeles", country |-> "USA"]

\* zodan.py NEW_NODE[0]
NEW_NODE == Endpoint("n3", "5433")

\* The endpoints a node catalog can list besides the new node
ExistingPool == << Endpoint("n1", "5431"), Endpoint("n2", "5432"),
                   Endpoint("n4", "5434"), Endpoint("n5", "5435"),
                   Endpoint("n6", "5436") >>

\* node with its "source" key set
Flagged(node) == [k \in DOMAIN node \cup {"source"} |->
                    IF k = "source" THEN TRUE ELSE node[k]]

\* the endpoint lists of n endpoints a catalog can hold (n1, n2, ... or
\* n2, n4, ...), any of them flagged as a source
NodeLists(n) ==
    { [k \in 1..n |-> IF k \in S THEN Flagged(ExistingPool[first + k])
                      ELSE ExistingPool[first + k]] :
          S \in SUBSET (1..n), first \in 0..1 }

SYNC_EVENT_TIMEOUT == 1200000
APPLY_WORKER_TIMEOUT == 1000

---------------------------------------------------------------------------
(* SQL generators (the same in zodan.py and cross_nodes.py) *)

\* str(b).lower()
BoolLower(b) == IF b THEN "true" ELSE "false"

NodeCreateHead == "SELECT spock.node_create(node_name => '"
SubCreateHead == "SELECT spock.sub_create(subscription_name => '"
SubDropHead == "SELECT spock.sub_drop(subscription_name => '"
NodeDropHead == "SELECT spock.node_drop(node_name => '"
RepsetCreateHead == "SELECT spock.repset_create(set_name => '"
SlotCreateHead == "SELECT pg_create_logical_replication_slot('"
WaitApplyHead == "SELECT spock.wait_for_apply_worker("
SyncEventSql == "SELECT spock.sync_event();"
WaitSyncHead == "CALL spock.wait_for_sync_event(true, '"
LagHead == "DO "

node_create(node_name, dsn, location, country) ==
    << NodeCreateHead, node_name, "', dsn => '", dsn,
       "', location => '", location, "', country => '", country, "');" >>

\* replication_sets is never passed by a caller: its default is used
sub_create(sub_name, provider_dsn, synchronize_structure, synchronize_data, enabled) ==
    << SubCreateHead, sub_name, "', provider_dsn => '", provider_dsn,
       "', replication_sets => ARRAY['default', 'default_insert_only', 'ddl_sql']",
       ", synchronize_structure => ", BoolLower(synchronize_structure),
       ", synchronize_data => ", BoolLower(synchronize_data),
       ", forward_origins => ARRAY[]::text[], apply_delay => '0'::interval",
       ", force_text_transfer => false, enabled => ", BoolLower(enabled), ");" >>

sub_drop(sub_name) == << SubDropHead, sub_name, "');" >>

node_drop(node_name) == << NodeDropHead, node_name, "');" >>

repset_create(set_name) ==
    << RepsetCreateHead, set_name,
       "', replicate_insert => true, replicate_update => true",
       ", replicate_delete => true, replicate_truncate => true);" >>

\* f"sub_{a}_{b}"
SubName(a, b) == "sub_" \o a \o "_" \o b

---------------------------------------------------------------------------
(* zodan.py: workflow construction *)

\* Step 1: create the new node
AddCreateNodeStep ==
    [description |-> "Create node " \o NEW_NODE.name \o " in the cluster",
     sql |-> node_create(NEW_NODE.name, DsnStr(NEW_NODE.dsn),
                         NEW_NODE.location, NEW_NODE.country),
     conn_info |-> NEW_NODE.dsn,
     node_name |-> NEW_NODE.name]

\* AddSubStep run on the new node's connection
AddSubStepOnNew(node) ==
    [description |-> "Create a subscription (" \o SubName(NEW_NODE.name, node.name) \o ")",
     sql |-> sub_create(SubName(NEW_NODE.name, node.name), DsnStr(NEW_NODE.dsn),
                        TRUE, TRUE, TRUE),
     conn_info |-> NEW_NODE.dsn,
     node_name |-> NEW_NODE.name]

\* Step 2-3: one subscription per existing node, created on that node
AddSubStep(node) ==
    [description |-> "Create a subscription (" \o SubName(NEW_NODE.name, node.name) \o ")",
     sql |-> sub_create(SubName(NEW_NODE.name, node.name), DsnStr(NEW_NODE.dsn),
                        TRUE, TRUE, TRUE),
     conn_info |-> node.dsn,
     node_name |-> node.name]

\* Step 4: wait for the apply worker; nodes[2] is NODES[1] of the source
AddWaitApplyStep(nodes) ==
    [description |-> "Wait for the apply worker",
     sql |-> <<WaitApplyHead, "$">> \o Str(2) \o <<", ">>
             \o Str(APPLY_WORKER_TIMEOUT) \o <<");">>,
     conn_info |-> nodes[2].dsn,
     ignore_error |-> TRUE,
     node_name |-> nodes[2].name]

\* Step 5: one disabled subscription per existing node, created on the new node
AddDisabledSubStep(node) ==
    [description |-> "Create Subscription (" \o SubName(node.name, NEW_NODE.name) \o ") [disabled]",
     sql |-> sub_create(SubName(node.name, NEW_NODE.name), DsnStr(node.dsn),
                        FALSE, FALSE, FALSE),
     conn_info |-> NEW_NODE.dsn,
     node_name |-> NEW_NODE.name]

SlotName(node) ==
    "spk_" \o SecondFieldValue(NEW_NODE.dsn) \o "_" \o node.name \o "_"
           \o SubName(node.name, NEW_NODE.name)

\* whether the slot loop emits a step for this node
SlotWanted(node) == ~Get(node, "source", FALSE)

\* AddSlotStep marked ignore_error
AddSlotStepIgnorable(node) ==
    [description |-> "Create replication slot " \o SlotName(node),
     sql |-> <<SlotCreateHead, SlotName(node), "', 'spock_output');">>,
     conn_info |-> NEW_NODE.dsn,
     ignore_error |-> TRUE,
     node_name |-> NEW_NODE.name]

\* Step 6: the replication slot of a disabled subscription
AddSlotStep(node) ==
    [description |-> "Create replication slot " \o SlotName(node),
     sql |-> <<SlotCreateHead, SlotName(node), "', 'spock_output');">>,
     conn_info |-> NEW_NODE.dsn,
     node_name |-> NEW_NODE.name]

AddSlotSteps(nodes) ==
    LET wanted == SelectSeq(nodes, SlotWanted)
    IN  [k \in 1..Len(wanted) |-> AddSlotStep(wanted[k])]

\* AddTriggerStep run on the new node's connection
AddTriggerStepOnNew(node) ==
    [description |-> "Trigger a synchronization event on " \o node.name,
     sql |-> <<SyncEventSql>>,
     conn_info |-> NEW_NODE.dsn,
     node_name |-> NEW_NODE.name]

AddTriggerStep(node) ==
    [description |-> "Trigger a synchronization event on " \o node.name,
     sql |-> <<SyncEventSql>>,
     conn_info |-> node.dsn,
     node_name |-> node.name]

\* AddWaitSyncStep referring to its own position, one past the trigger
AddWaitSyncStepSelfRef(node, n) ==
    [description |-> "Wait for the synchronization event triggered by "
                     \o node.name \o " to complete",
     sql |-> <<WaitSyncHead, node.name, "', ", "$">> \o Str(n + 1)
             \o <<"::pg_lsn, ">> \o Str(SYNC_EVENT_TIMEOUT) \o <<");">>,
     conn_info |-> NEW_NODE.dsn,
     ignore_error |-> TRUE,
     node_name |-> NEW_NODE.name]

\* n is len(steps) once the trigger step is appended
AddWaitSyncStep(node, n) ==
    [description |-> "Wait for the synchronization event triggered by "
                     \o node.name \o " to complete",
     sql |-> <<WaitSyncHead, node.name, "', ", "$">> \o Str(n)
             \o <<"::pg_lsn, ">> \o Str(SYNC_EVENT_TIMEOUT) \o <<");">>,
     conn_info |-> NEW_NODE.dsn,
     ignore_error |-> TRUE,
     node_name |-> NEW_NODE.name]

\* Step 7: the loop over enumerate(NODES), appending to the steps built so far
RECURSIVE AddSyncSteps(_, _, _)
AddSyncSteps(nodes, k, acc) ==
    IF k > Len(nodes) THEN acc
    ELSE IF Get(nodes[k], "source", FALSE)
         THEN LET withTrigger == Append(acc, AddTriggerStep(nodes[k]))
              IN  AddSyncSteps(nodes, k + 1,
                      Append(withTrigger,
                             AddWaitSyncStep(nodes[k], Len(withTrigger))))
         ELSE AddSyncSteps(nodes, k + 1, acc)

LAG_THRESHOLD == 59

\* Step 8: the polling block; its origins and receiver are literals
AddLagStep ==
    [description |-> "Check the replication lags between nodes",
     sql |-> <<LagHead, "$", "$", " DECLARE lag_n1_n3 interval; lag_n2_n3 interval; BEGIN LOOP ",
               "origin_name = '", "n1", "' AND receiver_name = '", "n3", "'; ",
               "origin_name = '", "n2", "' AND receiver_name = '", "n3", "'; ",
               "EXIT WHEN both NOT NULL AND both epoch < ">> \o Str(LAG_THRESHOLD)
             \o <<"; PERFORM pg_sleep(1); END LOOP; END ", "$", "$", ";">>,
     conn_info |-> NEW_NODE.dsn,
     node_name |-> NEW_NODE.name]

\* NODES[1] raises IndexError when fewer than two nodes are listed
AddNodeRaises(nodes) == Len(nodes) < 2

\* the steps list handed to execute_steps (when nothing raised)
add_node_steps(nodes) ==
    LET s1 == <<AddCreateNodeStep>>
        s2 == s1 \o [k \in 1..Len(nodes) |-> AddSubStep(nodes[k])]
        s4 == Append(s2, AddWaitApplyStep(nodes))
        s5 == s4 \o [k \in 1..Len(nodes) |-> AddDisabledSubStep(nodes[k])]
        s6 == s5 \o AddSlotSteps(nodes)
        s7 == AddSyncSteps(nodes, 1, s6)
    IN  Append(s7, AddLagStep)

RemoveDropOnNewStep(node) ==
    [description |-> "Drop subscription (" \o SubName(node.name, NEW_NODE.name) \o ")",
     sql |-> sub_drop(SubName(node.name, NEW_NODE.name)),
     conn_info |-> NEW_NODE.dsn,
     ignore_error |-> TRUE,
     node_name |-> NEW_NODE.name]

RemoveDropOnExistingStep(node) ==
    [description |-> "Drop subscription (" \o SubName(NEW_NODE.name, node.name) \o ")",
     sql |-> sub_drop(SubName(NEW_NODE.name, node.name)),
     conn_info |-> node.dsn,
     ignore_error |-> TRUE,
     node_name |-> node.name]

\* RemoveDropNodeStep without its ignore_error key
RemoveDropNodeStepFatal ==
    [description |-> "Drop node " \o NEW_NODE.name,
     sql |-> node_drop(NEW_NODE.name),
     conn_info |-> NEW_NODE.dsn,
     node_name |-> NEW_NODE.name]

RemoveDropNodeStep ==
    [description |-> "Drop node " \o NEW_NODE.name,
     sql |-> node_drop(NEW_NODE.name),
     conn_info |-> NEW_NODE.dsn,
     ignore_error |-> TRUE,
     node_name |-> NEW_NODE.name]

remove_node_steps(nodes) ==
    [k \in 1..Len(nodes) |-> RemoveDropOnNewStep(nodes[k])]
    \o [k \in 1..Len(nodes) |-> RemoveDropOnExistingStep(nodes[k])]
    \o <<RemoveDropNodeStep>>

---------------------------------------------------------------------------
(* zodan.py execute_steps: placeholder substitution and value extraction *)

\* the sort key of sorted(step_outputs.keys(), key=lambda x: -len(str(x)))
SortKey(x) == 0 - Len(Str(x))

\* sorted() is stable: x goes after every element whose key is not larger
InsertStable(sorted, x) ==
    LET p == Cardinality({k \in 1..Len(sorted) : SortKey(sorted[k]) <= SortKey(x)})
    IN  SubSeq(sorted, 1, p) \o <<x>> \o SubSeq(sorted, p + 1, Len(sorted))

RECURSIVE SortedKeys(_)
SortedKeys(keys) ==
    IF keys = <<>> THEN <<>>
    ELSE InsertStable(SortedKeys(SubSeq(keys, 1, Len(keys) - 1)), keys[Len(keys)])

\* f"${key}"
Placeholder(key) == <<"$">> \o Str(key)

\* the loop body of lines 286-288, over the keys still to process
RECURSIVE ReplaceKeys(_, _, _)
ReplaceKeys(text, keys, outputs) ==
    IF keys = <<>> THEN text
    ELSE ReplaceKeys(StrReplace(text, Placeholder(Head(keys)), outputs[Head(keys)]),
                     Tail(keys), outputs)

\* dict keys come in insertion order: 1, 2, ..., len(step_outputs)
ResolvePlaceholders(text, outputs) ==
    ReplaceKeys(text, SortedKeys([k \in 1..Len(outputs) |-> k]), outputs)

\* Eligible without the row-count footer test
EligibleKeepsFooter(line) ==
    /\ line # <<>>
    /\ ~StartsWith(line, <<"sub_create">>)
    /\ ~StartsWith(line, <<"node_create">>)

\* the test of line 302 on a stripped line
Eligible(line) ==
    /\ line # <<>>
    /\ ~StartsWith(line, <<"(">>)
    /\ ~StartsWith(line, <<"sub_create">>)
    /\ ~StartsWith(line, <<"node_create">>)

\* the loop of lines 300-304 over reversed(output_lines)
RECURSIVE FirstEligible(_)
FirstEligible(lines) ==
    IF lines = <<>> THEN <<>>
    ELSE IF Eligible(Strip(Head(lines))) THEN Strip(Head(lines))
    ELSE FirstEligible(Tail(lines))

Extracted(out) == FirstEligible(Reversed(SplitLines(Strip(out))))

\* "/" in extracted
HasSlash(text) == \E k \in 1..Len(text) : text[k] = "/"

\* lines 306-309: what is stored in step_outputs[i]
CapturedValue(out) ==
    LET extracted == Extracted(out)
    IN  IF HasSlash(extracted) THEN <<"'">> \o extracted \o <<"'">>
        ELSE extracted

---------------------------------------------------------------------------
(* The environment: what psql can answer *)

\* a one-row result holding an identifier
OidOutput == <<" ", "sub_create", " ", "\n", "------------", "\n",
               " ", "16385", "\n", "(", "1 row)", "\n">>

\* a one-row result holding a WAL position
LsnOutput == <<" ", "sync_event", " ", "\n", "------------", "\n",
               " ", "0", "/", "1A2B3C4D", "\n", "(", "1 row)", "\n">>

\* psql's answer to a command that succeeds: sync_event() gives a WAL
\* position, every other command a row holding an identifier
PsqlAnswers(command) ==
    IF command = <<SyncEventSql>> THEN {LsnOutput} ELSE {OidOutput}

LogLine(step_number, description, status, node_name) ==
    [step_number |-> step_number, description |-> description,
     status |-> status, node_name |-> node_name]

---------------------------------------------------------------------------
(* zodan.py: the process *)

\* a workflow run starts in a loaded module and touches no file
NoEnv ==
    /\ defined = {}
    /\ catalog = <<>>
    /\ fs = <<>>
    /\ input = <<>>

InitRun(ops) ==
    /\ op \in ops
    /\ steps = <<>>
    /\ pc = "main"
    /\ i = 0
    /\ sql = <<>>
    /\ step_outputs = <<>>
    /\ calls = <<>>
    /\ log = <<>>
    /\ exit_status = -1
    /\ failures = 0
    /\ returns = <<>>
    /\ stdout = <<>>
    /\ NoEnv

Init ==
    /\ InitRun({"add", "remove"})
    /\ NODES \in UNION {NodeLists(n) : n \in 0..MaxNodes}

\* add_node_workflow up to its call of execute_steps
BuildAdd ==
    /\ pc = "main" /\ op = "add"
    /\ IF AddNodeRaises(NODES)
       THEN /\ pc' = "crash"
            /\ exit_status' = 1
            /\ UNCHANGED <<steps, i>>
       ELSE /\ steps' = add_node_steps(NODES)
            /\ pc' = "loop"
            /\ i' = 1
            /\ UNCHANGED exit_status
    /\ UNCHANGED <<env, op, NODES, sql, step_outputs, calls, log, failures, returns, stdout>>

\* remove_node_workflow up to its call of execute_steps
BuildRemove ==
    /\ pc = "main" /\ op = "remove"
    /\ steps' = remove_node_steps(NODES)
    /\ pc' = "loop"
    /\ i' = 1
    /\ UNCHANGED <<env, op, NODES, sql, step_outputs, calls, log, exit_status,
                   failures, returns, stdout>>

\* execute_steps, lines 279-295: resolve the placeholders and call execute_sql
Dispatch ==
    /\ pc = "loop" /\ op \in {"add", "remove"}
    /\ i <= Len(steps)
    /\ sql' = ResolvePlaceholders(steps[i].sql, step_outputs)
    /\ calls' = Append(calls, [sql |-> sql', conn_info |-> Get(steps[i], "conn_info", <<>>)])
    /\ pc' = "wait"
    /\ UNCHANGED <<env, op, NODES, steps, i, step_outputs, log, exit_status,
                   failures, returns, stdout>>

\* OnSuccess that stores the value under every key up to i
OnSuccessOverwrites(out) ==
    /\ step_outputs' = [k \in 1..i |-> CapturedValue(out)]
    /\ log' = Append(log, LogLine(i, steps[i].description, "OK",
                                  Get(steps[i], "node_name", "")))
    /\ i' = i + 1
    /\ pc' = "loop"
    /\ UNCHANGED exit_status

\* lines 297-313: the dispatch returned zero
OnSuccess(out) ==
    /\ step_outputs' = Append(step_outputs, CapturedValue(out))
    /\ log' = Append(log, LogLine(i, steps[i].description, "OK",
                                  Get(steps[i], "node_name", "")))
    /\ i' = i + 1
    /\ pc' = "loop"
    /\ UNCHANGED exit_status

\* OnIgnored without line 315: nothing is recorded for the step
OnIgnoredRecordsNothing ==
    /\ log' = Append(log, LogLine(i, steps[i].description, "IGNORED",
                                  Get(steps[i], "node_name", "")))
    /\ i' = i + 1
    /\ pc' = "loop"
    /\ UNCHANGED <<step_outputs, exit_status>>

\* OnIgnored that leaves the loop on the same step: the step is tried again
OnIgnoredRetries ==
    /\ step_outputs' = step_outputs
    /\ log' = Append(log, LogLine(i, steps[i].description, "IGNORED",
                                  Get(steps[i], "node_name", "")))
    /\ i' = i
    /\ pc' = "loop"
    /\ UNCHANGED exit_status

\* lines 314-318: non-zero on a step with ignore_error
OnIgnored ==
    /\ step_outputs' = Append(step_outputs, <<>>)
    /\ log' = Append(log, LogLine(i, steps[i].description, "IGNORED",
                                  Get(steps[i], "node_name", "")))
    /\ i' = i + 1
    /\ pc' = "loop"
    /\ UNCHANGED exit_status

\* OnFatal without line 323: the failure is logged and the loop goes on
OnFatalContinues ==
    /\ step_outputs' = Append(step_outputs, <<>>)
    /\ log' = Append(log, LogLine(i, steps[i].description, "FAILED",
                                  Get(steps[i], "node_name", "")))
    /\ i' = i + 1
    /\ pc' = "loop"
    /\ UNCHANGED exit_status

\* lines 319-323: non-zero on any other step; sys.exit(message) exits with 1
OnFatal ==
    /\ log' = Append(log, LogLine(i, steps[i].description, "FAILED",
                                  Get(steps[i], "node_name", "")))
    /\ pc' = "exit"
    /\ exit_status' = 1
    /\ UNCHANGED <<step_outputs, i>>

\* execute_steps, lines 297-323, for one answer of execute_sql
Handle(code, out) ==
    /\ returns' = Append(returns, code)
    /\ stdout' = out
    /\ failures' = IF code = 0 THEN failures ELSE failures + 1
    /\ IF code = 0 THEN OnSuccess(out)
       ELSE IF Get(steps[i], "ignore_error", FALSE) THEN OnIgnored
       ELSE OnFatal
    /\ UNCHANGED <<env, op, NODES, steps, sql, calls>>

\* execute_sql returns zero with some output
ReturnOk ==
    /\ pc = "wait" /\ op \in {"add", "remove"}
    /\ \E out \in PsqlAnswers(sql) : Handle(0, out)

\* execute_sql returns non-zero
ReturnFail ==
    /\ pc = "wait" /\ op \in {"add", "remove"}
    /\ Handle(1, <<>>)

\* the loop is over: execute_steps and the workflow return, the process ends
Finish ==
    /\ pc = "loop" /\ op \in {"add", "remove"}
    /\ i > Len(steps)
    /\ pc' = "done"
    /\ exit_status' = 0
    /\ UNCHANGED <<env, op, NODES, steps, i, sql, step_outputs, calls, log,
                   failures, returns, stdout>>

Next == BuildAdd \/ BuildRemove \/ Dispatch \/ ReturnOk \/ ReturnFail \/ Finish

Spec == Init /\ [][Next]_vars

---------------------------------------------------------------------------
(* cross_nodes.py: workflow construction.  A builder state is the steps    *)
(* list with the step_num counter.                                         *)

\* Emit without the increment of step_num
EmitNoIncrement(b, step) ==
    [steps |-> Append(b.steps,
                      [k \in DOMAIN step \cup {"step_num"} |->
                          IF k = "step_num" THEN b.step_num ELSE step[k]]),
     step_num |-> b.step_num]

\* steps.append({..., "step_num": step_num}); step_num += 1
Emit(b, step) ==
    [steps |-> Append(b.steps,
                      [k \in DOMAIN step \cup {"step_num"} |->
                          IF k = "step_num" THEN b.step_num ELSE step[k]]),
     step_num |-> b.step_num + 1]

CrossCreateNodeStep(node) ==
    [description |-> "Create spock node " \o node.name,
     sql |-> node_create(node.name, DsnStr(node.dsn), node.location, node.country),
     conn_info |-> node.dsn,
     node_name |-> node.name]

\* CrossSubStep run on the provider's connection
CrossSubStepOnProvider(node, provider) ==
    [description |-> "Create subscription " \o SubName(provider.name, node.name)
                     \o " for " \o node.name
                     \o " (" \o provider.name \o "->" \o node.name \o ")",
     sql |-> sub_create(SubName(provider.name, node.name), DsnStr(provider.dsn),
                        TRUE, TRUE, TRUE),
     conn_info |-> provider.dsn,
     node_name |-> provider.name]

\* CrossSubStep with the loop variables taken the other way round: the
\* outer loop then runs over providers
CrossSubStepSwapped(node, provider) ==
    [description |-> "Create subscription " \o SubName(node.name, provider.name)
                     \o " for " \o provider.name
                     \o " (" \o node.name \o "->" \o provider.name \o ")",
     sql |-> sub_create(SubName(node.name, provider.name), DsnStr(node.dsn),
                        TRUE, TRUE, TRUE),
     conn_info |-> provider.dsn,
     node_name |-> provider.name]

\* node subscribes to provider
CrossSubStep(node, provider) ==
    [description |-> "Create subscription " \o SubName(provider.name, node.name)
                     \o " for " \o node.name
                     \o " (" \o provider.name \o "->" \o node.name \o ")",
     sql |-> sub_create(SubName(provider.name, node.name), DsnStr(provider.dsn),
                        TRUE, TRUE, TRUE),
     conn_info |-> node.dsn,
     node_name |-> node.name]

CrossRepsetStep(node) ==
    [description |-> "Create replication set " \o (node.name \o "r")
                     \o " for " \o node.name,
     sql |-> repset_create(node.name \o "r"),
     conn_info |-> node.dsn,
     node_name |-> node.name]

\* UncrossDropSubStep naming the subscription the other way round
UncrossDropSubStepSwapped(node, provider) ==
    [description |-> "Drop subscription " \o SubName(node.name, provider.name)
                     \o " from " \o node.name,
     sql |-> sub_drop(SubName(node.name, provider.name)),
     conn_info |-> node.dsn,
     node_name |-> node.name]

UncrossDropSubStep(node, provider) ==
    [description |-> "Drop subscription " \o SubName(provider.name, node.name)
                     \o " from " \o node.name,
     sql |-> sub_drop(SubName(provider.name, node.name)),
     conn_info |-> node.dsn,
     node_name |-> node.name]

UncrossDropNodeStep(node) ==
    [description |-> "Drop node " \o node.name,
     sql |-> node_drop(node.name),
     conn_info |-> node.dsn,
     node_name |-> node.name]

\* for node in nodes: (lines 93-101)
RECURSIVE CrossCreateLoop(_, _, _)
CrossCreateLoop(nodes, k, b) ==
    IF k > Len(nodes) THEN b
    ELSE CrossCreateLoop(nodes, k + 1, Emit(b, CrossCreateNodeStep(nodes[k])))

\* the index pair the loops of lines 104-106 visit after (i, j)
NextPair(nodes, ii, jj) == IF jj < Len(nodes) THEN <<ii, jj + 1>> ELSE <<ii + 1, 1>>

\* for i, node in enumerate(nodes): for j, provider in enumerate(nodes): if i != j (ii, jj here)
RECURSIVE CrossSubLoop(_, _, _, _)
CrossSubLoop(nodes, ii, jj, b) ==
    IF ii > Len(nodes) THEN b
    ELSE LET n == NextPair(nodes, ii, jj)
         IN  IF ii # jj
             THEN CrossSubLoop(nodes, n[1], n[2],
                               Emit(b, CrossSubStep(nodes[ii], nodes[jj])))
             ELSE CrossSubLoop(nodes, n[1], n[2], b)

\* for node in nodes: (lines 121-130)
RECURSIVE CrossRepsetLoop(_, _, _)
CrossRepsetLoop(nodes, k, b) ==
    IF k > Len(nodes) THEN b
    ELSE CrossRepsetLoop(nodes, k + 1, Emit(b, CrossRepsetStep(nodes[k])))

cross_node_steps(nodes) ==
    LET b0 == [steps |-> <<>>, step_num |-> 1]
        b1 == CrossCreateLoop(nodes, 1, b0)
        b2 == CrossSubLoop(nodes, 1, 1, b1)
        b3 == CrossRepsetLoop(nodes, 1, b2)
    IN  b3.steps

RECURSIVE UncrossSubLoop(_, _, _, _)
UncrossSubLoop(nodes, ii, jj, b) ==
    IF ii > Len(nodes) THEN b
    ELSE LET n == NextPair(nodes, ii, jj)
         IN  IF ii # jj
             THEN UncrossSubLoop(nodes, n[1], n[2],
                                 Emit(b, UncrossDropSubStep(nodes[ii], nodes[jj])))
             ELSE UncrossSubLoop(nodes, n[1], n[2], b)

RECURSIVE UncrossNodeLoop(_, _, _)
UncrossNodeLoop(nodes, k, b) ==
    IF k > Len(nodes) THEN b
    ELSE UncrossNodeLoop(nodes, k + 1, Emit(b, UncrossDropNodeStep(nodes[k])))

uncross_node_steps(nodes) ==
    LET b0 == [steps |-> <<>>, step_num |-> 1]
        b1 == UncrossSubLoop(nodes, 1, 1, b0)
        b2 == UncrossNodeLoop(nodes, 1, b1)
    IN  b2.steps

---------------------------------------------------------------------------
(* cross_nodes.py: the process *)

\* the lists cross_node_workflow and uncross_node_workflow are given
CrossNodeLists == {SubSeq(ExistingPool, 1, n) : n \in 0..MaxCrossNodes}

InitCross ==
    /\ InitRun({"cross", "uncross"})
    /\ NODES \in CrossNodeLists

CrossBuild ==
    /\ pc = "main" /\ op = "cross"
    /\ steps' = cross_node_steps(NODES)
    /\ pc' = "loop"
    /\ i' = 1
    /\ UNCHANGED <<env, op, NODES, sql, step_outputs, calls, log, exit_status,
                   failures, returns, stdout>>

UncrossBuild ==
    /\ pc = "main" /\ op = "uncross"
    /\ steps' = uncross_node_steps(NODES)
    /\ pc' = "loop"
    /\ i' = 1
    /\ UNCHANGED <<env, op, NODES, sql, step_outputs, calls, log, exit_status,
                   failures, returns, stdout>>

\* execute_steps, lines 166-172: call execute_sql with the step's command
CrossDispatch ==
    /\ pc = "loop" /\ op \in {"cross", "uncross"}
    /\ i <= Len(steps)
    /\ sql' = steps[i].sql
    /\ calls' = Append(calls, [sql |-> sql', conn_info |-> Get(steps[i], "conn_info", <<>>)])
    /\ pc' = "wait"
    /\ UNCHANGED <<env, op, NODES, steps, i, step_outputs, log, exit_status,
                   failures, returns, stdout>>

\* CrossHandle with the status fixed before the return code is looked at
CrossHandleLogsOk(code, out) ==
    LET step == steps[i]
    IN  /\ returns' = Append(returns, code)
        /\ stdout' = out
        /\ failures' = IF code = 0 THEN failures ELSE failures + 1
        /\ log' = Append(log, LogLine(Get(step, "step_num", 0), step.description,
                                      "OK", Get(step, "node_name", "")))
        /\ i' = i + 1
        /\ pc' = "loop"
        /\ UNCHANGED <<env, op, NODES, steps, sql, step_outputs, calls, exit_status>>

\* execute_steps, lines 173-178, for one answer of execute_sql
CrossHandle(code, out) ==
    LET step == steps[i]
        status == IF code = 0 THEN "OK" ELSE "FAILED"
    IN  /\ returns' = Append(returns, code)
        /\ stdout' = out
        /\ failures' = IF code = 0 THEN failures ELSE failures + 1
        /\ log' = Append(log, LogLine(Get(step, "step_num", 0), step.description,
                                      status, Get(step, "node_name", "")))
        /\ i' = i + 1
        /\ pc' = "loop"
        /\ UNCHANGED <<env, op, NODES, steps, sql, step_outputs, calls, exit_status>>

CrossReturnOk ==
    /\ pc = "wait" /\ op \in {"cross", "uncross"}
    /\ \E out \in PsqlAnswers(sql) : CrossHandle(0, out)

CrossReturnFail ==
    /\ pc = "wait" /\ op \in {"cross", "uncross"}
    /\ failures < MaxFailures
    /\ CrossHandle(1, <<>>)

\* the loop is over: the workflow returns and the process ends
CrossFinish ==
    /\ pc = "loop" /\ op \in {"cross", "uncross"}
    /\ i > Len(steps)
    /\ pc' = "done"
    /\ exit_status' = 0
    /\ UNCHANGED <<env, op, NODES, steps, i, sql, step_outputs, calls, log,
                   failures, returns, stdout>>

NextCross == CrossBuild \/ UncrossBuild \/ CrossDispatch \/ CrossReturnOk
             \/ CrossReturnFail \/ CrossFinish

SpecCross == InitCross /\ [][NextCross]_vars

---------------------------------------------------------------------------
(* zodan.py: the module load.  Python runs the top-level statements in     *)
(* source order; a name is bound once its statement has run, and a         *)
(* function body looks its globals up when it is called.                   *)

\* zodan.py SRC_NODE[0]
SRC_NODE == Endpoint("n1", "5431")

CatalogSql == "SELECT node_name, dsn, location, country FROM spock.node;"

\* the top-level statements, in source order: the names a statement binds,
\* the names it reads when it runs, and what else it runs
TopLevel == <<
    [line |-> 3,   binds |-> {"subprocess"}, uses |-> {}, runs |-> "bind"],
    [line |-> 4,   binds |-> {"sys"}, uses |-> {}, runs |-> "bind"],
    [line |-> 5,   binds |-> {"datetime"}, uses |-> {}, runs |-> "bind"],
    [line |-> 6,   binds |-> {"argparse"}, uses |-> {}, runs |-> "bind"],
    [line |-> 7,   binds |-> {"os"}, uses |-> {}, runs |-> "bind"],
    [line |-> 10,  binds |-> {"PG_PATH"}, uses |-> {}, runs |-> "bind"],
    [line |-> 13,  binds |-> {}, uses |-> {"os", "PG_PATH"}, runs |-> "bind"],
    [line |-> 16,  binds |-> {"SRC_NODE"}, uses |-> {}, runs |-> "bind"],
    [line |-> 25,  binds |-> {"NEW_NODE"}, uses |-> {}, runs |-> "bind"],
    [line |-> 34,  binds |-> {"get_nodes"}, uses |-> {}, runs |-> "bind"],
    [line |-> 63,  binds |-> {"NODES"}, uses |-> {"get_nodes"}, runs |-> "get_nodes"],
    [line |-> 66,  binds |-> {"REPLICATION_SLOTS"}, uses |-> {"NODES", "NEW_NODE"},
                   runs |-> "bind"],
    [line |-> 71,  binds |-> {"SYNC_EVENT_TIMEOUT"}, uses |-> {}, runs |-> "bind"],
    [line |-> 72,  binds |-> {"APPLY_WORKER_TIMEOUT"}, uses |-> {}, runs |-> "bind"],
    [line |-> 74,  binds |-> {"log_step"}, uses |-> {}, runs |-> "bind"],
    [line |-> 83,  binds |-> {"execute_sql"}, uses |-> {}, runs |-> "bind"],
    [line |-> 89,  binds |-> {"node_create"}, uses |-> {}, runs |-> "bind"],
    [line |-> 101, binds |-> {"sub_create"}, uses |-> {}, runs |-> "bind"],
    [line |-> 121, binds |-> {"sub_drop"}, uses |-> {}, runs |-> "bind"],
    [line |-> 126, binds |-> {"node_drop"}, uses |-> {}, runs |-> "bind"],
    [line |-> 130, binds |-> {"add_node_workflow"}, uses |-> {}, runs |-> "bind"],
    [line |-> 242, binds |-> {"remove_node_workflow"}, uses |-> {}, runs |-> "bind"],
    [line |-> 276, binds |-> {"execute_steps"}, uses |-> {}, runs |-> "bind"],
    [line |-> 327, binds |-> {}, uses |-> {"argparse", "add_node_workflow",
                                          "remove_node_workflow"},
                   runs |-> "main"] >>

\* the globals the body of get_nodes looks up when it is called, and those
\* of execute_sql, which it calls
GetNodesLooksUp == {"execute_sql", "SRC_NODE", "subprocess"}

\* get_nodes, lines 43-61: NODES is the catalog's rows, or [] on an error
GetNodesResult(rc, rows) == IF rc # 0 THEN <<>> ELSE rows

\* the catalogs a server can hold
Catalogs ==
    {SubSeq(ExistingPool, first + 1, first + n) : n \in 0..MaxNodes, first \in 0..1}

InitLoad ==
    /\ op \in {"add", "remove"}
    /\ input \in [verbose : 0..2]
    /\ catalog \in Catalogs
    /\ defined = {}
    /\ fs = <<>>
    /\ NODES = <<>>
    /\ steps = <<>>
    /\ pc = "load"
    /\ i = 1
    /\ sql = <<>>
    /\ step_outputs = <<>>
    /\ calls = <<>>
    /\ log = <<>>
    /\ exit_status = -1
    /\ failures = 0
    /\ returns = <<>>
    /\ stdout = <<>>

\* one top-level statement runs.  A read of an unbound name raises
\* NameError, which ends the process with status 1.
LoadStatement ==
    /\ pc = "load"
    /\ i <= Len(TopLevel)
    /\ LET st == TopLevel[i]
           reads == st.uses \cup (IF st.runs = "get_nodes" THEN GetNodesLooksUp ELSE {})
           raises == ~(reads \subseteq defined)
           querying == ~raises /\ st.runs = "get_nodes"
       IN  \E rc \in (IF querying THEN {0, 1} ELSE {0}) :
              /\ pc' = IF raises THEN "NameError"
                        ELSE IF st.runs = "main" THEN "main" ELSE "load"
              /\ exit_status' = IF raises THEN 1 ELSE exit_status
              /\ defined' = IF raises THEN defined ELSE defined \cup st.binds
              /\ i' = IF raises THEN i ELSE IF st.runs = "main" THEN 0 ELSE i + 1
              /\ calls' = IF querying
                          THEN Append(calls, [sql |-> <<CatalogSql>>,
                                              conn_info |-> SRC_NODE.dsn])
                          ELSE calls
              /\ returns' = IF querying THEN Append(returns, rc) ELSE returns
              /\ NODES' = IF querying THEN GetNodesResult(rc, catalog) ELSE NODES
    /\ UNCHANGED <<op, steps, sql, step_outputs, log, failures, stdout,
                   catalog, fs, input>>

NextLoad == LoadStatement

SpecLoad == InitLoad /\ [][NextLoad]_vars

---------------------------------------------------------------------------
(* pg_script.py and scripts/pg_script.py: the compile and initdb commands. *)
(* input.script says which of the two scripts runs; fs is what the         *)
(* commands find on disk; calls lists the external commands invoked;       *)
(* stdout lists the messages printed.                                      *)

Scripts == {"pg_script.py", "scripts/pg_script.py"}

\* the files of a data directory the commands read or write
DataFiles == {"PG_VERSION", "postgresql.auto.conf", "pg_hba.conf"}

\* pg_script.py print_failure(message, exit_script): sys.exit(1) only on
\* request; scripts/pg_script.py print_error(msg): always sys.exit(1).
\* The process state after the message: pc "exit" with status 1, or back
\* in the handler, whose return ends main() with status 0.
print_failure(exit_script) ==
    IF exit_script THEN [pc |-> "exit", exit_status |-> 1]
    ELSE [pc |-> "done", exit_status |-> 0]

print_error == [pc |-> "exit", exit_status |-> 1]

\* the commands of the build, in the order the handler issues them
CompileStages(script) ==
    IF script = "pg_script.py"
    THEN << [cmd |-> "configure", ignore_error |-> FALSE],
            [cmd |-> "make", ignore_error |-> FALSE],
            [cmd |-> "make install", ignore_error |-> FALSE] >>
    ELSE << [cmd |-> "make distclean", ignore_error |-> TRUE],
            [cmd |-> "configure", ignore_error |-> FALSE],
            [cmd |-> "make", ignore_error |-> FALSE],
            [cmd |-> "make install", ignore_error |-> FALSE] >>

\* the message that reports a finished build
SuccessMessage(script) ==
    IF script = "pg_script.py" THEN "SUCCESS: Installation complete"
    ELSE "SUCCESS: compiled"

\* what the handler does with a stage's return code: the messages printed
\* and where the process goes
CompileAfterStage(script, k, rc) ==
    LET st == CompileStages(script)[k]
        last == k = Len(CompileStages(script))
        go == [pc |-> IF last THEN "done" ELSE "stage",
               exit_status |-> IF last THEN 0 ELSE -1]
    IN  IF script = "pg_script.py"
        THEN IF rc # 0
             THEN [out |-> <<"FAILURE: " \o st.cmd>>, to |-> print_failure(FALSE)]
             ELSE [out |-> IF last THEN <<SuccessMessage(script)>>
                           ELSE <<"SUCCESS: " \o st.cmd>>,
                   to |-> go]
        ELSE IF rc # 0 /\ ~st.ignore_error
             THEN [out |-> <<"FAILURE: " \o st.cmd>>, to |-> print_error]
             ELSE [out |-> IF last THEN <<SuccessMessage(script)>> ELSE <<>>,
                   to |-> go]

InitNode ==
    /\ op \in {"compile", "initdb"}
    /\ \E script \in Scripts, section \in BOOLEAN :
          input = [script |-> script,
                   auto_conf_section |-> section \/ script = "pg_script.py"
                                                 \/ op = "compile"]
    /\ IF op = "compile"
       THEN \E source \in {"no source_path", "dir", "tarball", "none"} :
               fs = [source |-> source, exists |-> FALSE, files |-> <<>>,
                     initdb |-> FALSE]
       ELSE \E exists \in BOOLEAN, present \in SUBSET DataFiles,
                 initdb \in BOOLEAN :
               /\ ~exists => present = {}
               /\ fs = [source |-> "dir", exists |-> exists,
                        files |-> [f \in present |-> <<"old">>],
                        initdb |-> initdb]
    /\ defined = {}
    /\ catalog = <<>>
    /\ NODES = <<>>
    /\ steps = <<>>
    /\ pc = "main"
    /\ i = 0
    /\ sql = <<>>
    /\ step_outputs = <<>>
    /\ calls = <<>>
    /\ log = <<>>
    /\ exit_status = -1
    /\ failures = 0
    /\ returns = <<>>
    /\ stdout = <<>>

\* handle_compile lines 156-206, compile_node lines 180-192: find the
\* source tree, extracting the tarball where the script does so
CompileLocate ==
    /\ pc = "main" /\ op = "compile"
    /\ LET own == input.script = "pg_script.py"
           extracting == own /\ fs.source = "tarball"
       IN  \E rc \in (IF extracting THEN {0, 1} ELSE {0}),
              unpacked \in (IF extracting THEN BOOLEAN ELSE {TRUE}) :
              LET found == fs.source = "dir" \/ (extracting /\ rc = 0 /\ unpacked)
                  to == IF found THEN [pc |-> "stage", exit_status |-> -1]
                        ELSE IF own THEN print_failure(fs.source = "no source_path")
                        ELSE print_error
              IN  /\ calls' = IF extracting THEN Append(calls, "tar") ELSE calls
                  /\ returns' = IF extracting THEN Append(returns, rc) ELSE returns
                  /\ fs' = IF extracting /\ rc = 0 /\ unpacked
                           THEN [fs EXCEPT !.source = "dir"] ELSE fs
                  /\ stdout' = IF found
                               THEN (IF extracting
                                     THEN Append(stdout, "SUCCESS: tar") ELSE stdout)
                               ELSE Append(stdout, "FAILURE: source")
                  /\ pc' = to.pc
                  /\ exit_status' = to.exit_status
                  /\ i' = 1
    /\ UNCHANGED <<op, NODES, steps, sql, step_outputs, log, failures,
                   defined, catalog, input>>

\* one build command is run and its return code handled
CompileStage ==
    /\ pc = "stage" /\ op = "compile"
    /\ \E rc \in {0, 1} :
          LET after == CompileAfterStage(input.script, i, rc)
          IN  /\ calls' = Append(calls, CompileStages(input.script)[i].cmd)
              /\ returns' = Append(returns, rc)
              /\ stdout' = stdout \o after.out
              /\ pc' = after.to.pc
              /\ exit_status' = after.to.exit_status
              /\ i' = i + 1
    /\ UNCHANGED <<op, NODES, steps, sql, step_outputs, log, failures, env>>

\* the check with the emptiness test left out
RefusesDataDirNever(dir) == FALSE

\* handle_initdb lines 286-289, initdb_node line 171: the data directory
\* must be absent or empty.  TRUE when the command refuses it.
RefusesDataDir(dir) == dir.exists /\ DOMAIN dir.files # {}

\* handle_initdb lines 244-297, initdb_node lines 168-172
InitdbCheck ==
    /\ pc = "main" /\ op = "initdb"
    /\ LET own == input.script = "pg_script.py"
           refused == (own /\ ~fs.initdb) \/ RefusesDataDir(fs)
           to == IF ~refused THEN [pc |-> "initdb", exit_status |-> -1]
                 ELSE IF own THEN print_failure(TRUE) ELSE print_error
       IN  /\ pc' = to.pc
           /\ exit_status' = to.exit_status
           /\ stdout' = IF refused THEN Append(stdout, "FAILURE: initdb refused")
                        ELSE stdout
           /\ fs' = IF refused THEN fs ELSE [fs EXCEPT !.exists = TRUE]
    /\ UNCHANGED <<op, NODES, steps, i, sql, step_outputs, calls, log, failures,
                   returns, defined, catalog, input>>

\* what initdb leaves in the data directory
InitdbOutput == [f \in DataFiles |-> <<"initdb">>]

\* the configuration the script writes after a successful initdb:
\* pg_script.py appends to postgresql.auto.conf (lines 314-327);
\* scripts/pg_script.py rewrites it (write_auto_conf) and appends to
\* pg_hba.conf (modify_pg_hba_conf)
ConfigureDataDir(script, files) ==
    IF script = "pg_script.py"
    THEN [files EXCEPT !["postgresql.auto.conf"] = @ \o <<"port", "options">>]
    ELSE [files EXCEPT !["postgresql.auto.conf"] = <<"settings">>,
                       !["pg_hba.conf"] = @ \o <<"replication", "local">>]

\* handle_initdb lines 299-340, initdb_node lines 173-178
InitdbRun ==
    /\ pc = "initdb" /\ op = "initdb"
    /\ \E rc \in (IF fs.initdb THEN {0, 1} ELSE {1}) :
          LET own == input.script = "pg_script.py"
              to == IF rc # 0
                    THEN (IF own THEN print_failure(FALSE) ELSE print_error)
                    ELSE IF ~input.auto_conf_section THEN print_error
                    ELSE [pc |-> "done", exit_status |-> 0]
          IN  /\ calls' = Append(calls, "initdb")
              /\ returns' = Append(returns, rc)
              /\ fs' = IF rc # 0 THEN fs
                       ELSE IF ~input.auto_conf_section
                       THEN [fs EXCEPT !.files = InitdbOutput]
                       ELSE [fs EXCEPT !.files =
                                ConfigureDataDir(input.script, InitdbOutput)]
              /\ stdout' = IF rc # 0 THEN Append(stdout, "FAILURE: initdb")
                           ELSE IF ~input.auto_conf_section
                           THEN Append(stdout, "FAILURE: postgresql.auto.conf")
                           ELSE IF own THEN Append(stdout, "SUCCESS: initdb")
                           ELSE stdout
              /\ pc' = to.pc
              /\ exit_status' = to.exit_status
    /\ UNCHANGED <<op, NODES, steps, i, sql, step_outputs, log, failures,
                   defined, catalog, input>>

NextNode == CompileLocate \/ CompileStage \/ InitdbCheck \/ InitdbRun

SpecNode == InitNode /\ [][NextNode]_vars

---------------------------------------------------------------------------
(* spock_cluster.py: the cluster manager.  input.num_nodes is -n; fs maps  *)
(* a node number to the state of its data directory and server; calls      *)
(* lists the node operations performed, log the lines written.             *)

MaxClusterNodes == 2

\* get_nodes(num_nodes)
ClusterNodes(num_nodes) == 1..num_nodes

ClusterCommands == {"init", "stop", "destroy", "cleanup", "update-conf", "all"}

\* main lines 196-213, all_nodes lines 160-177: the loop a command starts
\* with, and the loop that follows a finished loop
FirstPhase(command) ==
    CASE command = "init" -> "init"
      [] command = "stop" -> "stop"
      [] command = "destroy" -> "destroy"
      [] command = "cleanup" -> "cleanup"
      [] command = "update-conf" -> "conf"
      [] command = "all" -> "stop"

\* all_nodes: stop, destroy, init with conf, start, cleanup, final line
AllNodesNextPhase(phase) ==
    CASE phase = "stop" -> "destroy"
      [] phase = "destroy" -> "init"
      [] phase = "conf" -> "start"
      [] phase = "start" -> "cleanup"
      [] phase = "cleanup" -> "finish"

\* where the process is after the operation of `phase` on node k
ClusterAfter(command, phase, k, num_nodes) ==
    IF phase = "init" /\ command \in {"init", "all"}
    THEN [pc |-> "conf", i |-> k]
    ELSE IF k < num_nodes
    THEN [pc |-> IF phase = "conf" /\ command \in {"init", "all"}
                 THEN "init" ELSE phase,
          i |-> k + 1]
    ELSE IF command = "all" THEN [pc |-> AllNodesNextPhase(phase), i |-> 1]
    ELSE [pc |-> "done", i |-> k + 1]

\* the state of a node's data directory and server
NodeStates ==
    { [dir |-> FALSE, initialized |-> FALSE, conf |-> FALSE, running |-> FALSE],
      [dir |-> TRUE, initialized |-> TRUE, conf |-> TRUE, running |-> FALSE],
      [dir |-> TRUE, initialized |-> TRUE, conf |-> TRUE, running |-> TRUE] }

InitCluster ==
    /\ op \in ClusterCommands
    /\ \E n \in 0..MaxClusterNodes :
          /\ input = [num_nodes |-> n]
          /\ fs \in [ClusterNodes(n) -> NodeStates]
          /\ pc = IF n > 0 THEN FirstPhase(op)
                  ELSE IF op = "all" THEN "finish" ELSE "done"
          /\ exit_status = IF n > 0 \/ op = "all" THEN -1 ELSE 0
    /\ i = 1
    /\ defined = {}
    /\ catalog = <<>>
    /\ NODES = <<>>
    /\ steps = <<>>
    /\ sql = <<>>
    /\ step_outputs = <<>>
    /\ calls = <<>>
    /\ log = <<>>
    /\ failures = 0
    /\ returns = <<>>
    /\ stdout = <<>>

\* the common part of a node operation: the operation is recorded, one
\* line is logged, the node's state changes and the loop moves on; the
\* process ends with status 0 after the last loop of a single command
ClusterStep(phase, status, node) ==
    LET after == ClusterAfter(op, phase, i, input.num_nodes)
    IN  /\ calls' = Append(calls, [action |-> phase, node |-> i])
        /\ log' = Append(log, [action |-> phase, node |-> i, status |-> status])
        /\ fs' = [fs EXCEPT ![i] = node]
        /\ pc' = after.pc
        /\ i' = after.i
        /\ exit_status' = IF after.pc = "done" THEN 0 ELSE exit_status
        /\ UNCHANGED <<op, NODES, steps, sql, step_outputs, failures, returns,
                       stdout, defined, catalog, input>>

\* stop_node
ClusterStop ==
    /\ pc = "stop"
    /\ IF ~fs[i].dir THEN ClusterStep("stop", "SKIPPED", fs[i])
       ELSE \E ok \in (IF fs[i].running THEN BOOLEAN ELSE {FALSE}) :
               ClusterStep("stop", IF ok THEN "OK" ELSE "FAILED",
                           [fs[i] EXCEPT !.running = @ /\ ~ok])

\* destroy_node: rm -rf of the data directory
ClusterDestroy ==
    /\ pc = "destroy"
    /\ ClusterStep("destroy", "OK",
                   [fs[i] EXCEPT !.dir = FALSE, !.initialized = FALSE,
                                 !.conf = FALSE])

\* init_node: initdb unless PG_VERSION is there
ClusterInit ==
    /\ pc = "init"
    /\ IF fs[i].initialized
       THEN ClusterStep("init", "SKIPPED", [fs[i] EXCEPT !.dir = TRUE])
       ELSE \E ok \in BOOLEAN :
               ClusterStep("init", IF ok THEN "OK" ELSE "FAILED",
                           [fs[i] EXCEPT !.dir = TRUE, !.initialized = ok])

\* write_auto_conf: fails when the data directory is missing
ClusterConf ==
    /\ pc = "conf"
    /\ ClusterStep("conf", IF fs[i].dir THEN "OK" ELSE "FAILED",
                   [fs[i] EXCEPT !.conf = @ \/ fs[i].dir])

\* start_node
ClusterStart ==
    /\ pc = "start"
    /\ IF ~fs[i].dir THEN ClusterStep("start", "SKIPPED", fs[i])
       ELSE \E ok \in (IF fs[i].initialized /\ ~fs[i].running
                        THEN BOOLEAN ELSE {FALSE}) :
               ClusterStep("start", IF ok THEN "OK" ELSE "FAILED",
                           [fs[i] EXCEPT !.running = @ \/ ok])

\* cleanup_node: database commands against the node's server
ClusterCleanup ==
    /\ pc = "cleanup"
    /\ \E ok \in (IF fs[i].running THEN BOOLEAN ELSE {FALSE}) :
          ClusterStep("cleanup", IF ok THEN "OK" ELSE "FAILED", fs[i])

\* all_nodes line 177
ClusterFinish ==
    /\ pc = "finish"
    /\ log' = Append(log, [action |-> "All actions completed", node |-> 0,
                           status |-> "OK"])
    /\ pc' = "done"
    /\ exit_status' = 0
    /\ UNCHANGED <<op, NODES, steps, i, sql, step_outputs, calls, failures,
                   returns, stdout, env>>

NextCluster ==
    \/ ClusterStop \/ ClusterDestroy \/ ClusterInit \/ ClusterConf
    \/ ClusterStart \/ ClusterCleanup \/ ClusterFinish

SpecCluster == InitCluster /\ [][NextCluster]_vars

---------------------------------------------------------------------------
(* setup_replication.py: modify_postgresql_conf.  A line of the file is    *)
(* either an assignment `key = value`, possibly commented out, or some     *)
(* other text; input holds the arguments, fs.conf the file's lines.        *)

MaxConfLines == 2

ConfKeys == {"wal_level", "archive_command"}

\* values a caller asks for, and value texts found in a file
RequestedValues == {"replica", "/archive"}
FileValues == {"replica", "minimal", "'/archive'"}

\* the words written without quotes (lines 188 and 211)
UnquotedWords ==
    {"on", "off", "true", "false", "replica", "logical", "minimal", "hot_standby",
     "md5", "scram-sha-256", "trust", "local", "remote_write", "remote_apply"}

\* value.isdigit(), and value.startswith("'") and value.endswith("'"),
\* on the value texts of the model
IsDigits(value) == value \in {"0", "10", "5432"}
IsQuoted(value) == value \in {"'/archive'"}

\* lines 188-191: strings are quoted unless digits, a known word or quoted
FormatValue(value) ==
    IF IsDigits(value) \/ value \in UnquotedWords \/ IsQuoted(value)
    THEN value
    ELSE "'" \o value \o "'"

OtherLine == [key |-> "", value |-> "", commented |-> TRUE]

ConfLines ==
    {OtherLine} \cup [key : ConfKeys, value : FileValues, commented : BOOLEAN]

\* the pattern ^\s*(#\s*)?(key)\s*=\s*(.*)$ matches the line
MatchesKey(line, key) == line.key = key

\* lines 152-169: comment out the assignments of unset_keys
RECURSIVE UnsetPass(_, _)
UnsetPass(lines, unset_keys) ==
    IF lines = <<>> THEN <<>>
    ELSE LET line == Head(lines)
         IN  <<IF \E k \in unset_keys : MatchesKey(line, k)
               THEN [line EXCEPT !.commented = TRUE] ELSE line>>
             \o UnsetPass(Tail(lines), unset_keys)

\* the position in settings of the first pair whose key the line assigns,
\* 0 when there is none
MatchingSetting(line, settings) ==
    IF \E k \in 1..Len(settings) : MatchesKey(line, settings[k].key)
    THEN CHOOSE k \in 1..Len(settings) :
            /\ MatchesKey(line, settings[k].key)
            /\ \A j \in 1..(k - 1) : ~MatchesKey(line, settings[j].key)
    ELSE 0

RemoveAt(seq, k) == SubSeq(seq, 1, k - 1) \o SubSeq(seq, k + 1, Len(seq))

\* lines 171-204: the first line that assigns a key of settings_to_process
\* is rewritten (or kept when it already says so) and the key is removed
\* from settings_to_process; the result is the lines and the settings left
RECURSIVE SettingsPass(_, _)
SettingsPass(lines, settings_to_process) ==
    IF lines = <<>>
    THEN [final_lines |-> <<>>, settings_to_process |-> settings_to_process]
    ELSE LET line == Head(lines)
             k == MatchingSetting(line, settings_to_process)
         IN  IF k = 0
             THEN LET rest == SettingsPass(Tail(lines), settings_to_process)
                  IN  [rest EXCEPT !.final_lines = <<line>> \o @]
             ELSE LET rest == SettingsPass(Tail(lines),
                                           RemoveAt(settings_to_process, k))
                  IN  [rest EXCEPT !.final_lines =
                          <<[key |-> settings_to_process[k].key,
                             value |-> FormatValue(settings_to_process[k].value),
                             commented |-> FALSE]>> \o @]

\* lines 206-215: the settings not found are appended
RECURSIVE AppendSettings(_)
AppendSettings(settings_to_process) ==
    IF settings_to_process = <<>> THEN <<>>
    ELSE <<[key |-> Head(settings_to_process).key,
            value |-> FormatValue(Head(settings_to_process).value),
            commented |-> FALSE]>> \o AppendSettings(Tail(settings_to_process))

\* the file's lines after modify_postgresql_conf
modify_postgresql_conf(lines, settings, unset_keys) ==
    LET pass == SettingsPass(UnsetPass(lines, unset_keys), settings)
    IN  pass.final_lines \o AppendSettings(pass.settings_to_process)

\* the files of at most n lines
RECURSIVE ConfFiles(_)
ConfFiles(n) ==
    IF n = 0 THEN {<<>>}
    ELSE LET shorter == ConfFiles(n - 1)
         IN  shorter \cup {Append(f, l) : f \in {g \in shorter : Len(g) = n - 1},
                                          l \in ConfLines}

\* the settings dictionaries: distinct keys, in insertion order
SettingsDicts ==
    {<<>>}
    \cup {<<[key |-> k, value |-> v]>> : k \in ConfKeys, v \in RequestedValues}
    \cup {d \in [1..2 -> [key : ConfKeys, value : RequestedValues]] :
             d[1].key # d[2].key}

InitConf ==
    /\ op = "modify_postgresql_conf"
    /\ \E settings \in SettingsDicts, unset_keys \in SUBSET {"wal_level"} :
          input = [settings |-> settings, unset_keys |-> unset_keys]
    /\ \E exists \in BOOLEAN, lines \in ConfFiles(MaxConfLines) :
          /\ ~exists => lines = <<>>
          /\ fs = [exists |-> exists, conf |-> lines]
    /\ defined = {}
    /\ catalog = <<>>
    /\ NODES = <<>>
    /\ steps = <<>>
    /\ pc = "main"
    /\ i = 0
    /\ sql = <<>>
    /\ step_outputs = <<>>
    /\ calls = <<>>
    /\ log = <<>>
    /\ exit_status = -1
    /\ failures = 0
    /\ returns = <<>>
    /\ stdout = <<>>

\* modify_postgresql_conf: False for a missing file, else the file is
\* rewritten and True returned
ModifyPostgresqlConf ==
    /\ pc = "main" /\ op = "modify_postgresql_conf"
    /\ fs' = IF fs.exists
             THEN [fs EXCEPT !.conf = modify_postgresql_conf(fs.conf, input.settings,
                                                             input.unset_keys)]
             ELSE fs
    /\ returns' = <<fs.exists>>
    /\ pc' = "returned"
    /\ UNCHANGED <<op, NODES, steps, i, sql, step_outputs, calls, log,
                   exit_status, failures, stdout, defined, catalog, input>>

NextConf == ModifyPostgresqlConf

SpecConf == InitConf /\ [][NextConf]_vars

---------------------------------------------------------------------------
(* setup_replication.py: the base backup.  op "main" is a run of the       *)
(* script; op "perform_pg_basebackup" is a call of the function on a path  *)
(* in any state.  input holds the arguments, fs.replica the replica data   *)
(* path, log the records emitted (level and text, the text as tokens),     *)
(* calls the commands executed.                                            *)

\* Python's None, which an f-string renders as the text None
None == "None"

ReplicationPasswords == {None, "s3cret", "hunter2"}

\* the states of the replica data path
ReplicaPaths ==
    { [kind |-> "absent", entries |-> {}],
      [kind |-> "file", entries |-> {}],
      [kind |-> "dir", entries |-> {}],
      [kind |-> "dir", entries |-> {"PG_VERSION"}] }

\* main line 665-667: the connection string of the base backup
primary_conn_dsn_for_backup(cfg) ==
    << "host=", "localhost", " port=", "5432", " user=", cfg.replication_user,
       " password=", cfg.replication_password, " dbname=", "postgres" >>
    \o (IF cfg.replication_type = "sync"
        THEN <<" application_name=", "replica1_app_name">> ELSE <<>>)

\* str.replace on a text of tokens
ReplaceToken(text, old, new) ==
    [k \in DOMAIN text |-> IF text[k] = old THEN new ELSE text[k]]

\* lines 494-497: the password is masked when one was given
DsnForLog(dsn, replication_password_for_log) ==
    IF replication_password_for_log # None
    THEN ReplaceToken(dsn, replication_password_for_log, "********")
    ELSE dsn

\* lines 489-492, and ' '.join(command) of execute_shell_command line 82
BasebackupCommand(dsn, pgdata_replica) ==
    <<"pg_basebackup", "-d">> \o dsn
    \o <<"-D", pgdata_replica, "-X", "stream", "-P", "-R", "-l", "pg_basebackup_replica">>

ReplicaPgdataPath == "/var/lib/postgresql/16/main_replica_data"

Record(level, text) == [level |-> level, text |-> text]

\* the pre-check with the emptiness test left out
PrecheckAbortsOnlyFiles(path) == path.kind = "file"

\* lines 474-481: the pre-check aborts on a path that is not a directory
\* or is a directory with entries
PrecheckAborts(path) ==
    \/ path.kind = "file"
    \/ path.kind = "dir" /\ path.entries # {}

InitBackup ==
    /\ op \in {"main", "perform_pg_basebackup"}
    /\ input \in [replication_user : {"repl_user"},
                   replication_password : ReplicationPasswords,
                   replication_type : {"async", "sync"}]
    /\ fs \in [replica : ReplicaPaths]
    /\ pc = IF op = "main" THEN "main" ELSE "precheck"
    /\ defined = {}
    /\ catalog = <<>>
    /\ NODES = <<>>
    /\ steps = <<>>
    /\ i = 0
    /\ sql = <<>>
    /\ step_outputs = <<>>
    /\ calls = <<>>
    /\ log = <<>>
    /\ exit_status = -1
    /\ failures = 0
    /\ returns = <<>>
    /\ stdout = <<>>

\* main lines 582-654: the effective configuration is logged without the
\* passwords, then the primary is set up (steps 1 to 5); a critical
\* failure there ends the run with status 1
MainPrimarySetup ==
    /\ pc = "main" /\ op = "main"
    /\ \E ok \in BOOLEAN :
          /\ log' = log
                \o << Record("INFO", <<"--- Effective Script Configuration (Passwords Masked/Omitted) ---">>),
                      Record("INFO", <<"Replication User: ", input.replication_user>>),
                      Record("INFO", <<"Replication Type: ", input.replication_type>>) >>
                \o (IF input.replication_password = None
                    THEN <<Record("WARNING", <<"Replication password not provided.">>)>>
                    ELSE <<>>)
                \o (IF ok THEN <<Record("INFO", <<"--- Primary Server Setup Complete ---">>)>>
                    ELSE <<Record("ERROR", <<"CRITICAL: primary setup failed. Aborting setup.">>)>>)
          /\ pc' = IF ok THEN "step6" ELSE "exit"
          /\ exit_status' = IF ok THEN exit_status ELSE 1
    /\ UNCHANGED <<op, NODES, steps, i, sql, step_outputs, calls, failures,
                   returns, stdout, env>>

\* main lines 656-663: an existing replica data path is removed first;
\* shutil.rmtree raises on a path that is not a directory
MainRemoveReplica ==
    /\ pc = "step6" /\ op = "main"
    /\ LET path == fs.replica
           raises == path.kind = "file"
       IN  /\ log' = log
                 \o <<Record("INFO", <<"Step 6: Performing pg_basebackup...">>)>>
                 \o (IF path.kind # "absent"
                     THEN <<Record("INFO", <<"Found existing replica data directory at '",
                                             ReplicaPgdataPath, "'. Removing it">>)>>
                     ELSE <<>>)
                 \o (IF raises
                     THEN <<Record("ERROR", <<"CRITICAL: Error removing existing replica data directory">>)>>
                     ELSE <<>>)
           /\ fs' = IF raises THEN fs
                    ELSE [fs EXCEPT !.replica = [kind |-> "absent", entries |-> {}]]
           /\ pc' = IF raises THEN "exit" ELSE "precheck"
           /\ exit_status' = IF raises THEN 1 ELSE exit_status
    /\ UNCHANGED <<op, NODES, steps, i, sql, step_outputs, calls, failures,
                   returns, stdout, defined, catalog, input>>

\* perform_pg_basebackup lines 472-498: the pre-check, and on a free path
\* the command is built and announced with the masked connection string.
\* On an abort the function returns False, on which main exits with 1.
BackupPrecheck ==
    /\ pc = "precheck"
    /\ LET path == fs.replica
           dsn == primary_conn_dsn_for_backup(input)
           aborts == PrecheckAborts(path)
       IN  /\ log' = log
                 \o (IF aborts
                     THEN <<Record("ERROR", <<"Path '", ReplicaPgdataPath,
                                              "' is not an empty directory. Aborting.">>)>>
                           \o (IF op = "main"
                               THEN <<Record("ERROR", <<"CRITICAL: pg_basebackup failed. Aborting setup.">>)>>
                               ELSE <<>>)
                     ELSE <<Record("INFO", <<"Replica data directory '", ReplicaPgdataPath,
                                             "' is ready.">>),
                            Record("INFO",
                                   <<"Attempting to perform pg_basebackup to '",
                                     ReplicaPgdataPath, "' using DSN: '">>
                                   \o DsnForLog(dsn, input.replication_password)
                                   \o <<"'">>)>>)
           /\ fs' = IF aborts THEN fs
                    ELSE [fs EXCEPT !.replica = [kind |-> "dir", entries |-> {}]]
           /\ returns' = IF aborts THEN Append(returns, FALSE) ELSE returns
           /\ pc' = IF ~aborts THEN "exec"
                    ELSE IF op = "main" THEN "exit" ELSE "returned"
           /\ exit_status' = IF aborts /\ op = "main" THEN 1 ELSE exit_status
    /\ UNCHANGED <<op, NODES, steps, i, sql, step_outputs, calls, failures,
                   stdout, defined, catalog, input>>

\* execute_shell_command lines 82-113 on the backup command, and
\* perform_pg_basebackup lines 500-507 and main lines 670-684 on its result
BackupExec ==
    /\ pc = "exec"
    /\ \E rc \in {0, 1} :
          LET command == BasebackupCommand(primary_conn_dsn_for_backup(input),
                                           ReplicaPgdataPath)
          IN  /\ calls' = Append(calls, command)
              /\ returns' = Append(returns, rc = 0)
              /\ log' = log
                    \o <<Record("INFO", <<"Executing command: ">> \o command)>>
                    \o (IF rc = 0
                        THEN <<Record("INFO", <<"Command '">> \o command
                                              \o <<"' executed successfully.">>),
                               Record("INFO", <<"pg_basebackup completed successfully.">>)>>
                        ELSE <<Record("ERROR", <<"Command '">> \o command
                                               \o <<"' failed with code ", "1">>),
                               Record("ERROR", <<"pg_basebackup failed.">>)>>)
                    \o (IF op # "main" THEN <<>>
                        ELSE IF rc = 0
                        THEN <<Record("INFO", <<"PostgreSQL replication setup script orchestration finished successfully.">>)>>
                        ELSE <<Record("ERROR", <<"CRITICAL: pg_basebackup failed. Aborting setup.">>)>>)
              /\ fs' = IF rc = 0
                       THEN [fs EXCEPT !.replica.entries = {"PG_VERSION", "standby.signal"}]
                       ELSE fs
              /\ pc' = IF op # "main" THEN "returned"
                       ELSE IF rc = 0 THEN "done" ELSE "exit"
              /\ exit_status' = IF op # "main" THEN exit_status
                                ELSE IF rc = 0 THEN 0 ELSE 1
    /\ UNCHANGED <<op, NODES, steps, i, sql, step_outputs, failures, stdout,
                   defined, catalog, input>>

NextBackup == MainPrimarySetup \/ MainRemoveReplica \/ BackupPrecheck \/ BackupExec

SpecBackup == InitBackup /\ [][NextBackup]_vars

---------------------------------------------------------------------------
(* setup_replication.py: configure_pg_hba_for_replication.  A line of      *)
(* pg_hba.conf is its whitespace-separated parts, whether it is commented  *)
(* out, and whether it is laid out as the function writes its entry.       *)
(* fs.hba is the file's lines, fs.newline_at_end whether the last line     *)
(* ends in a newline; i counts the calls made.                             *)

MaxHbaLines == 2
MaxHbaCalls == 2

\* line 251
auth_method == "scram-sha-256"

\* line 252: hba_entry_to_add
HbaEntry(database, replication_user, replica_address) ==
    [commented |-> FALSE,
     parts |-> <<"host", database, replication_user, replica_address, auth_method>>,
     layout |-> "entry"]

HbaArguments ==
    [replication_user : {"repl_user"}, replica_address : {"10.0.0.2/32"},
     database : {"replication"}]

\* lines a file may hold: the entry, the entry commented out or in another
\* layout, the entry with one field changed, a short line, an empty line
HbaLines ==
    LET e == <<"host", "replication", "repl_user", "10.0.0.2/32", auth_method>>
        line(parts) == [commented |-> FALSE, parts |-> parts, layout |-> "single"]
    IN  { [commented |-> FALSE, parts |-> e, layout |-> "entry"],
          [commented |-> TRUE, parts |-> e, layout |-> "entry"],
          line(e),
          line([e EXCEPT ![1] = "hostssl"]),
          line([e EXCEPT ![2] = "all"]),
          line([e EXCEPT ![2] = "postgres"]),
          line([e EXCEPT ![3] = "all"]),
          line([e EXCEPT ![3] = "postgres"]),
          line([e EXCEPT ![4] = "0.0.0.0/0"]),
          line([e EXCEPT ![4] = "10.9.9.9/32"]),
          line([e EXCEPT ![5] = "md5"]),
          line([e EXCEPT ![5] = "reject"]),
          line(<<"host", "all", "all", "all", "trust">>),
          line(<<"local", "all", "all", "peer">>),
          line(<<>>) }

\* lines 261-262: comments and empty lines are skipped
HbaSkipped(line) == line.commented \/ line.parts = <<>>

\* lines 265-267: the stripped line is the entry, character for character
HbaExactMatch(line, entry) == line.parts = entry.parts /\ line.layout = entry.layout

\* lines 270-283: a host line for the database or all, the user or all, the
\* address or a wildcard, with a sufficient method
HbaCovers(line, args) ==
    /\ Len(line.parts) >= 5
    /\ line.parts[1] = "host"
    /\ line.parts[2] \in {args.database, "all"}
    /\ line.parts[3] \in {args.replication_user, "all"}
    /\ line.parts[4] \in {args.replica_address, "all", "0.0.0.0/0", "::/0"}
    /\ line.parts[5] \in {auth_method, "md5", "trust"}

\* the scan with the check for covering entries left out
HbaEntryExistsExactOnly(lines, args) ==
    \E k \in 1..Len(lines) :
        /\ ~HbaSkipped(lines[k])
        /\ HbaExactMatch(lines[k], HbaEntry(args.database, args.replication_user,
                                             args.replica_address))

\* lines 258-284: entry_exists after the scan of the file
HbaEntryExists(lines, args) ==
    \E k \in 1..Len(lines) :
        /\ ~HbaSkipped(lines[k])
        /\ \/ HbaExactMatch(lines[k], HbaEntry(args.database, args.replication_user,
                                                args.replica_address))
           \/ HbaCovers(lines[k], args)

\* the files of at most n lines
RECURSIVE HbaFiles(_)
HbaFiles(n) ==
    IF n = 0 THEN {<<>>}
    ELSE LET shorter == HbaFiles(n - 1)
         IN  shorter \cup {Append(f, l) : f \in {g \in shorter : Len(g) = n - 1},
                                          l \in HbaLines}

InitHba ==
    /\ op = "configure_pg_hba_for_replication"
    /\ input \in HbaArguments
    /\ \E exists \in BOOLEAN, lines \in HbaFiles(MaxHbaLines), nl \in BOOLEAN :
          /\ ~exists => lines = <<>>
          /\ lines = <<>> => nl
          /\ fs = [exists |-> exists, hba |-> lines, newline_at_end |-> nl]
    /\ pc = "call"
    /\ i = 0
    /\ defined = {}
    /\ catalog = <<>>
    /\ NODES = <<>>
    /\ steps = <<>>
    /\ sql = <<>>
    /\ step_outputs = <<>>
    /\ calls = <<>>
    /\ log = <<>>
    /\ exit_status = -1
    /\ failures = 0
    /\ returns = <<>>
    /\ stdout = <<>>

\* one call of configure_pg_hba_for_replication: False for a missing
\* file; else the entry is appended unless one exists, the last line
\* being terminated first, and True is returned
ConfigurePgHba ==
    /\ pc = "call"
    /\ i < MaxHbaCalls
    /\ LET entry == HbaEntry(input.database, input.replication_user,
                             input.replica_address)
           adds == fs.exists /\ ~HbaEntryExists(fs.hba, input)
       IN  /\ fs' = IF adds
                    THEN [fs EXCEPT !.hba = Append(@, entry), !.newline_at_end = TRUE]
                    ELSE fs
           /\ returns' = Append(returns, fs.exists)
           /\ log' = Append(log, IF ~fs.exists THEN "not found"
                                 ELSE IF adds THEN "Adding HBA entry"
                                 ELSE "No changes required")
    /\ i' = i + 1
    /\ UNCHANGED <<op, NODES, steps, pc, sql, step_outputs, calls, exit_status,
                   failures, stdout, defined, catalog, input>>

NextHba == ConfigurePgHba

SpecHba == InitHba /\ [][NextHba]_vars

---------------------------------------------------------------------------
(* setup_replication.py main, step by step (lines 582-684).  Each of the    *)
(* five primary steps calls a function that returns True or False; the      *)
(* outcome is the environment's.  returns holds the value each step         *)
(* function returned, in call order; i is the number of the next step.      *)

\* the record main logs before it calls the function of step n
StepBanner(n) ==
    CASE n = 1 -> <<"Step 1: Creating/Verifying replication user...">>
      [] n = 2 -> <<"Step 2: Modifying primary postgresql.conf...">>
      [] n = 3 -> <<"Step 3: Configuring primary pg_hba.conf...">>
      [] n = 4 -> <<"Step 4: Creating/Verifying replication slot...">>
      [] n = 5 -> <<"Step 5: Restarting primary PostgreSQL service...">>
      [] OTHER -> <<"Step 6: Performing pg_basebackup...">>

\* a run on which only a failure of step 1 is critical
CriticalOnlyFirst(n) == n = 1

\* whether main exits when the function of step n returns False: step 2
\* (lines 636-637) only warns
Critical(n) == n # 2

\* lines 593-607: the configuration and the warnings logged before step 1
ConfigRecords(cfg) ==
    << Record("INFO", <<"--- Effective Script Configuration (Passwords Masked/Omitted) ---">>),
       Record("INFO", <<"Replication User: ", cfg.replication_user>>),
       Record("INFO", <<"Replication Type: ", cfg.replication_type>>) >>
    \o (IF cfg.replication_password = None
        THEN <<Record("WARNING", <<"Replication password not provided.">>)>>
        ELSE <<>>)

\* one primary step of main: the banner, the call, and what main does with
\* the value returned
MainStep(n) ==
    /\ op = "main" /\ pc = "primary" /\ i = n
    /\ \E ok \in BOOLEAN :
          /\ returns' = Append(returns, ok)
          /\ log' = log
                \o (IF n = 1 THEN ConfigRecords(input) ELSE <<>>)
                \o <<Record("INFO", StepBanner(n))>>
                \o (IF ok THEN <<>>
                    ELSE IF Critical(n)
                    THEN <<Record("ERROR", <<"CRITICAL: step failed. Aborting setup.">>)>>
                    ELSE <<Record("WARNING", <<"Modification reported issues or made no changes.">>)>>)
                \o (IF n = 5 /\ ok
                    THEN <<Record("INFO", <<"--- Primary Server Setup Complete ---">>)>>
                    ELSE <<>>)
          /\ IF ~ok /\ Critical(n)
             THEN /\ pc' = "exit"
                  /\ exit_status' = 1
                  /\ UNCHANGED i
             ELSE /\ pc' = IF n = 5 THEN "step6" ELSE "primary"
                  /\ i' = n + 1
                  /\ UNCHANGED exit_status
    /\ UNCHANGED <<op, NODES, steps, sql, step_outputs, calls, failures, stdout, env>>

\* lines 616-619
MainCreateUser == MainStep(1)

\* lines 621-637
MainModifyConf == MainStep(2)

\* lines 639-642
MainConfigureHba == MainStep(3)

\* lines 644-647
MainCreateSlot == MainStep(4)

\* lines 649-654
MainRestart == MainStep(5)

InitSetup ==
    /\ op = "main"
    /\ input \in [replication_user : {"repl_user"},
                   replication_password : ReplicationPasswords,
                   replication_type : {"async", "sync"}]
    /\ fs \in [replica : ReplicaPaths]
    /\ pc = "primary"
    /\ i = 1
    /\ defined = {}
    /\ catalog = <<>>
    /\ NODES = <<>>
    /\ steps = <<>>
    /\ sql = <<>>
    /\ step_outputs = <<>>
    /\ calls = <<>>
    /\ log = <<>>
    /\ exit_status = -1
    /\ failures = 0
    /\ returns = <<>>
    /\ stdout = <<>>

NextSetup ==
    \/ MainCreateUser \/ MainModifyConf \/ MainConfigureHba \/ MainCreateSlot
    \/ MainRestart \/ MainRemoveReplica \/ BackupPrecheck \/ BackupExec

SpecSetup == InitSetup /\ [][NextSetup]_vars

---------------------------------------------------------------------------
(* zodan.py run against a catalog that already lists the new node: get_nodes *)
(* returns every row of spock.node (lines 39-63), the row of NEW_NODE        *)
(* included once an earlier add-node run has registered it.                  *)

\* the endpoint lists of n endpoints that hold the new node's row
ListedNodeLists(n) ==
    { [k \in 1..n |-> IF k < p THEN l[k]
                      ELSE IF k = p THEN NEW_NODE ELSE l[k - 1]] :
          l \in NodeLists(n - 1), p \in 1..n }

InitListed ==
    /\ InitRun({"add", "remove"})
    /\ NODES \in UNION {ListedNodeLists(n) : n \in 1..MaxNodes}

SpecListed == InitListed /\ [][Next]_vars

---------------------------------------------------------------------------
(* A run of either script *)

InitAll == Init \/ InitCross

NextAll == Next \/ NextCross

SpecAll == InitAll /\ [][NextAll]_vars

---------------------------------------------------------------------------
(* Placeholder substitution alone (zodan.py lines 286-288), over bounded   *)
(* commands and results maps.  The step being resolved is steps[1]; it     *)
(* stands at position Len(step_outputs) + 1 of its workflow.               *)

\* the texts of at most n tokens over an alphabet
TextsUpTo(alphabet, n) == UNION {[1..m -> alphabet] : m \in 0..n}

CmdAlphabet == {"$", "1", "0"}

\* the value most recorded steps hold, and the values one step may hold instead
PlainValue == <<"v">>
OddValues == {<<>>, <<"a">>, <<"0">>, <<"$", "1">>}

\* results maps over the keys 1..n: every value plain, but for at most one key
ResultsMaps(n) ==
    {[k \in 1..n |-> PlainValue]}
    \cup {[k \in 1..n |-> IF k = odd THEN v ELSE PlainValue] :
             odd \in 1..n, v \in OddValues}

InitSubst ==
    /\ op = "subst"
    /\ NODES = <<>>
    /\ \E cmd \in TextsUpTo(CmdAlphabet, MaxCmdLen) :
          /\ steps = <<[description |-> "", sql |-> cmd]>>
          /\ sql = cmd
    /\ step_outputs \in UNION {ResultsMaps(n) : n \in 0..MaxKeys}
    /\ pc = "loop"
    /\ i = 1
    /\ calls = <<>>
    /\ log = <<>>
    /\ exit_status = -1
    /\ failures = 0
    /\ returns = <<>>
    /\ stdout = <<>>
    /\ NoEnv

\* lines 286-288 for the step
Substitute ==
    /\ pc = "loop" /\ op = "subst"
    /\ sql' = ResolvePlaceholders(steps[1].sql, step_outputs)
    /\ pc' = "resolved"
    /\ UNCHANGED <<env, op, NODES, steps, i, step_outputs, calls, log, exit_status,
                   failures, returns, stdout>>

NextSubst == Substitute

SpecSubst == InitSubst /\ [][NextSubst]_vars

---------------------------------------------------------------------------
(* Value extraction alone (zodan.py lines 297-309), over bounded output    *)
(* texts, for a step that calls sub_create and one that calls sync_event.  *)

OutAlphabet == {" ", "\n", "(", "/", "x", "sub_create", "node_create", "sync_event"}

ExtractSteps == {AddSubStep(ExistingPool[1]), AddTriggerStep(ExistingPool[1])}

InitExtract ==
    /\ op = "extract"
    /\ NODES = <<>>
    /\ \E step \in ExtractSteps :
          /\ steps = <<step>>
          /\ sql = step.sql
    /\ stdout \in TextsUpTo(OutAlphabet, MaxOutLen)
    /\ step_outputs = <<>>
    /\ pc = "wait"
    /\ i = 1
    /\ calls = <<>>
    /\ log = <<>>
    /\ exit_status = -1
    /\ failures = 0
    /\ returns = <<>>
    /\ NoEnv

\* lines 297-309 for a dispatch that returned zero with the output stdout
Capture ==
    /\ pc = "wait" /\ op = "extract"
    /\ step_outputs' = Append(step_outputs, CapturedValue(stdout))
    /\ returns' = Append(returns, 0)
    /\ pc' = "captured"
    /\ UNCHANGED <<env, op, NODES, steps, i, sql, calls, log, exit_status,
                   failures, stdout>>

NextExtract == Capture

SpecExtract == InitExtract /\ [][NextExtract]_vars

---------------------------------------------------------------------------
(* Properties *)

\* step k of the built workflow is marked ignore_error
Ignorable(k) == Get(steps[k], "ignore_error", FALSE)

\* whether pattern occurs in text
Occurs(text, pattern) ==
    \E p \in 1..Len(text) : StartsWith(SubSeq(text, p, Len(text)), pattern)

\* C1: in an add-node or remove-node run, once the dispatch of a step k that
\* is not ignorable has returned non-zero, no later step is ever dispatched:
\* the dispatches of the run are those of steps 1..k, k in all.
C1_FatalFailureStopsDispatch ==
    op \in {"add", "remove"} =>
        /\ \A k \in 1..Len(calls) : calls[k].conn_info = steps[k].conn_info
        /\ \A k \in 1..Len(returns) :
              (returns[k] # 0 /\ ~Ignorable(k)) =>
                  /\ Len(calls) = k
                  /\ Len(returns) = k
                  /\ pc = "exit"

\* a fatal failure in the middle of an add-node workflow
C1_Witness ==
    /\ op = "add" /\ pc = "exit"
    /\ Len(returns) >= 3 /\ Len(returns) < Len(steps)
    /\ returns[Len(returns)] # 0 /\ ~Ignorable(Len(returns))
    /\ Len(calls) = Len(returns)

\* C2 (as claimed): in a cross-wire or uncross-wire run, a dispatch of step k
\* that returns non-zero aborts the run: no step after k is dispatched and
\* the run reports failure (a non-zero exit status).
C2_CrossFailureAborts ==
    op \in {"cross", "uncross"} =>
        \A k \in 1..Len(returns) :
            returns[k] # 0 =>
                /\ Len(calls) = k
                /\ pc = "done" => exit_status # 0

\* C3: in an add-node or remove-node run, after the dispatch of an ignorable
\* step k has returned non-zero, the value recorded for step k is the empty
\* text, the run goes on with step k+1 (when there is one), and no command
\* dispatched later holds a reference to step k.
C3_IgnoredFailureContinues ==
    op \in {"add", "remove"} =>
        \A k \in 1..Len(returns) :
            (returns[k] # 0 /\ Ignorable(k)) =>
                /\ Len(step_outputs) >= k
                /\ step_outputs[k] = <<>>
                /\ (k < Len(steps) /\ Len(calls) = k) => (pc = "loop" /\ i = k + 1)
                /\ k = Len(steps) => Len(calls) = k
                /\ \A m \in (k + 1)..Len(calls) :
                      /\ calls[m].conn_info = steps[m].conn_info
                      /\ ~Occurs(calls[m].sql, Placeholder(k))

\* an ignorable step failed and the step after it was dispatched
C3_Witness ==
    /\ op = "add"
    /\ \E k \in 1..Len(returns) :
          /\ returns[k] # 0 /\ Ignorable(k)
          /\ Len(calls) > k
          /\ step_outputs[k] = <<>>

\* the recorded step whose placeholder text begins at the head of text: the
\* longest match, 0 when there is none
RefAt(text, outputs) ==
    LET hits == {n \in 1..Len(outputs) : StartsWith(text, Placeholder(n))}
    IN  IF hits = {} THEN 0
        ELSE CHOOSE n \in hits : \A m \in hits : m <= n

\* text with each reference replaced, once, by the value of its own step
RECURSIVE EachReferenceReplaced(_, _)
EachReferenceReplaced(text, outputs) ==
    IF text = <<>> THEN <<>>
    ELSE LET n == RefAt(text, outputs)
         IN  IF n = 0
             THEN <<Head(text)>> \o EachReferenceReplaced(Tail(text), outputs)
             ELSE outputs[n] \o EachReferenceReplaced(
                      SubSeq(text, Len(Placeholder(n)) + 1, Len(text)), outputs)

\* C4 (as claimed): for any results map and any command, the resolved command
\* is the command with each occurrence of "$N", N a recorded step, replaced
\* by results[N] as a whole, a multi-digit reference being a reference to
\* its own step and never to a shorter step followed by digits.
C4_EachReferenceResolvedToOwnStep ==
    (op = "subst" /\ pc = "resolved") =>
        sql = EachReferenceReplaced(steps[1].sql, step_outputs)

\* the function a command calls, as psql echoes it in the column header
FunctionOf(command) ==
    IF command = <<SyncEventSql>> THEN "sync_event"
    ELSE IF Head(command) = SubCreateHead THEN "sub_create"
    ELSE IF Head(command) = NodeCreateHead THEN "node_create"
    ELSE ""

\* the stripped lines of an output text
StrippedLines(out) ==
    LET lines == SplitLines(out) IN [k \in 1..Len(lines) |-> Strip(lines[k])]

\* the last line that is not empty and that skip does not hold of, or the
\* empty text; wrapped in single quotes exactly when it holds "/"
LastKept(lines, skipped) ==
    LET kept == {k \in 1..Len(lines) : lines[k] # <<>> /\ k \notin skipped}
        raw == IF kept = {} THEN <<>>
               ELSE lines[CHOOSE k \in kept : \A m \in kept : m <= k]
    IN  IF \E k \in 1..Len(raw) : raw[k] = "/"
        THEN <<"'">> \o raw \o <<"'">> ELSE raw

\* C5 (as claimed): the value captured for a successful step is the last
\* non-empty line of the output that is neither a row-count footer (begins
\* with "(") nor an echo of the name of the function the step invoked,
\* quoted exactly when it contains "/".
C5_CapturedSkipsInvokedFunctionEcho ==
    (op = "extract" /\ pc = "captured") =>
        LET lines == StrippedLines(stdout)
            skipped == {k \in 1..Len(lines) :
                          \/ StartsWith(lines[k], <<"(">>)
                          \/ lines[k] = <<FunctionOf(steps[1].sql)>>}
        IN  step_outputs[1] = LastKept(lines, skipped)

\* C5 (amended): the value captured for a successful step is the last line
\* of the output that, trimmed, is not empty and begins with none of "(",
\* "sub_create" and "node_create", whatever function the step invoked, or the
\* empty text when there is no such line; it is stored wrapped in single
\* quotes exactly when it contains "/", and verbatim otherwise.
C5_CapturedSkipsFixedPrefixes ==
    (op = "extract" /\ pc = "captured") =>
        LET lines == StrippedLines(stdout)
            skipped == {k \in 1..Len(lines) :
                          \/ StartsWith(lines[k], <<"(">>)
                          \/ StartsWith(lines[k], <<"sub_create">>)
                          \/ StartsWith(lines[k], <<"node_create">>)}
        IN  step_outputs[1] = LastKept(lines, skipped)

\* a data line holding "/" above a footer: captured quoted, the footer skipped
C5_Witness ==
    /\ op = "extract" /\ pc = "captured"
    /\ stdout = <<"x", "/", "\n", "(">>
    /\ step_outputs[1] = <<"'", "x", "/", "'">>

\* readings of a step's command (token positions of the SQL generators)
IsNodeCreate(st) == Head(st.sql) = NodeCreateHead
IsSubCreate(st) == Head(st.sql) = SubCreateHead
IsRepsetCreate(st) == Head(st.sql) = RepsetCreateHead
IsWaitApply(st) == Head(st.sql) = WaitApplyHead
IsSlotCreate(st) == Head(st.sql) = SlotCreateHead
IsTrigger(st) == st.sql = <<SyncEventSql>>
IsWaitSync(st) == Head(st.sql) = WaitSyncHead
IsLagPoll(st) == Head(st.sql) = LagHead
SubscriptionOf(st) == st.sql[2]
ProviderDsnOf(st) == st.sql[4]
SyncStructureOf(st) == st.sql[7]
SyncDataOf(st) == st.sql[9]
EnabledOf(st) == st.sql[12]

\* a cross-wire workflow has been built
CrossBuilt == op = "cross" /\ pc # "main"

\* st creates the subscription of NODES[s] to the provider NODES[p]:
\* dispatched to the subscriber, the provider's connection string as provider
IsSubFor(st, p, s) ==
    /\ IsSubCreate(st)
    /\ SubscriptionOf(st) = SubName(NODES[p].name, NODES[s].name)
    /\ ProviderDsnOf(st) = DsnStr(NODES[p].dsn)
    /\ st.conn_info = NODES[s].dsn

\* C6: for N endpoints the cross-wire workflow is N create-node steps, then
\* N*(N-1) create-subscription steps, then N create-replication-set steps;
\* each ordered pair of distinct endpoints (provider, subscriber) has exactly
\* one create-subscription step, dispatched to the subscriber with the
\* provider's connection string, and no step pairs an endpoint with itself.
C6_CrossWirePhases ==
    CrossBuilt =>
        LET N == Len(NODES)
            subs == (N + 1)..(N + N * (N - 1))
        IN  /\ Len(steps) = N + N * (N - 1) + N
            /\ \A k \in 1..N :
                  /\ IsNodeCreate(steps[k])
                  /\ steps[k].sql[2] = NODES[k].name
                  /\ steps[k].conn_info = NODES[k].dsn
            /\ \A k \in subs : IsSubCreate(steps[k])
            /\ \A k \in 1..N :
                  /\ IsRepsetCreate(steps[N + N * (N - 1) + k])
                  /\ steps[N + N * (N - 1) + k].conn_info = NODES[k].dsn
            /\ \A p \in 1..N : \A s \in 1..N :
                  Cardinality({k \in 1..Len(steps) : IsSubFor(steps[k], p, s)})
                      = IF p = s THEN 0 ELSE 1
            /\ \A k \in subs : \A e \in 1..N :
                  ~(ProviderDsnOf(steps[k]) = DsnStr(NODES[e].dsn)
                    /\ steps[k].conn_info = NODES[e].dsn)

\* a cross-wire workflow over three endpoints, built and run to its end
C6_Witness ==
    /\ CrossBuilt /\ pc = "done"
    /\ Len(NODES) = 3
    /\ Len(steps) = 12 /\ Len(calls) = 12

\* the <<provider, subscriber>> index pair of the k-th subscription step
PairAt(k) ==
    CHOOSE ps \in (1..Len(NODES)) \X (1..Len(NODES)) :
        IsSubFor(steps[Len(NODES) + k], ps[1], ps[2])

\* C7 (as claimed): the subscription steps come provider-major,
\* subscriber-minor in input endpoint order.
C7_ProviderMajorOrder ==
    CrossBuilt =>
        LET N == Len(NODES)
            pairs == [k \in 1..(N * (N - 1)) |-> PairAt(k)]
        IN  \A a \in DOMAIN pairs : \A b \in DOMAIN pairs :
                a < b =>
                    \/ pairs[a][1] < pairs[b][1]
                    \/ (pairs[a][1] = pairs[b][1] /\ pairs[a][2] < pairs[b][2])

\* C7 (amended): the subscription steps come subscriber-major,
\* provider-minor in input endpoint order: first every subscription of the
\* first endpoint (its providers in input order), then every subscription of
\* the second endpoint, and so on.
C7_SubscriberMajorOrder ==
    CrossBuilt =>
        LET N == Len(NODES)
            pairs == [k \in 1..(N * (N - 1)) |-> PairAt(k)]
        IN  \A a \in DOMAIN pairs : \A b \in DOMAIN pairs :
                a < b =>
                    \/ pairs[a][2] < pairs[b][2]
                    \/ (pairs[a][2] = pairs[b][2] /\ pairs[a][1] < pairs[b][1])

\* three endpoints: the first subscription step has the second endpoint as
\* provider, the next one the third, both for the first endpoint
C7_Witness ==
    /\ CrossBuilt /\ Len(NODES) = 3
    /\ PairAt(1) = <<2, 1>>
    /\ PairAt(2) = <<3, 1>>
    /\ PairAt(3) = <<1, 2>>

\* an add-node workflow has been built
AddBuilt == op = "add" /\ pc \notin {"main", "crash"}

\* the number of endpoints flagged as synchronization sources
SourceCount == Cardinality({k \in 1..Len(NODES) : Get(NODES[k], "source", FALSE)})

\* C8: with N >= 2 existing endpoints, S of them flagged as sources, the
\* add-node workflow is, in this order: 1 create-node step on the new
\* endpoint; N create-subscription steps, one per existing endpoint in input
\* order, each run on that endpoint; 1 wait-for-apply-worker step; N disabled,
\* sync-skipped create-subscription steps on the new endpoint; the
\* replication-slot steps; S trigger/wait pairs; 1 lag-polling step, last.
C8_AddNodePhases ==
    AddBuilt =>
        LET N == Len(NODES)
            S == SourceCount
            L == Len(steps)
            M == L - (2 * N + 2) - 2 * S - 1
        IN  /\ N >= 2
            /\ M >= 0
            /\ IsNodeCreate(steps[1])
            /\ steps[1].sql[2] = NEW_NODE.name
            /\ steps[1].conn_info = NEW_NODE.dsn
            /\ \A k \in 1..N :
                  /\ IsSubCreate(steps[1 + k])
                  /\ SubscriptionOf(steps[1 + k]) = SubName(NEW_NODE.name, NODES[k].name)
                  /\ EnabledOf(steps[1 + k]) = "true"
                  /\ steps[1 + k].conn_info = NODES[k].dsn
                  /\ steps[1 + k].node_name = NODES[k].name
            /\ IsWaitApply(steps[N + 2])
            /\ \A k \in 1..N :
                  /\ IsSubCreate(steps[N + 2 + k])
                  /\ SubscriptionOf(steps[N + 2 + k]) = SubName(NODES[k].name, NEW_NODE.name)
                  /\ EnabledOf(steps[N + 2 + k]) = "false"
                  /\ SyncStructureOf(steps[N + 2 + k]) = "false"
                  /\ SyncDataOf(steps[N + 2 + k]) = "false"
                  /\ steps[N + 2 + k].conn_info = NEW_NODE.dsn
            /\ \A k \in 1..M : IsSlotCreate(steps[2 * N + 2 + k])
            /\ \A q \in 1..S :
                  /\ IsTrigger(steps[2 * N + 2 + M + 2 * q - 1])
                  /\ IsWaitSync(steps[2 * N + 2 + M + 2 * q])
            /\ IsLagPoll(steps[L])
            /\ \A k \in 1..(L - 1) : ~IsLagPoll(steps[k])

\* an add-node workflow over two endpoints, one of them a source, run to its end
C8_Witness ==
    /\ AddBuilt /\ pc = "done"
    /\ Len(NODES) = 2 /\ SourceCount = 1
    /\ Len(calls) = Len(steps)

\* C9 (as claimed): the wait-for-apply-worker step references the step at
\* position N+1, the last subscription of the phase before it, and is
\* dispatched to the endpoint on which that subscription was created.
C9_WaitsForLastSubscription ==
    AddBuilt =>
        LET N == Len(NODES)
            wait == steps[N + 2]
        IN  /\ IsWaitApply(wait)
            /\ SubSeq(wait.sql, 2, Len(wait.sql))
                 = Placeholder(N + 1) \o <<", ">> \o Str(APPLY_WORKER_TIMEOUT) \o <<");">>
            /\ wait.conn_info = steps[N + 1].conn_info

\* C10 (as claimed): the add-node workflow holds exactly one
\* replication-slot step for each existing endpoint, N in all, whether or
\* not the endpoint is flagged as a synchronization source.
C10_OneSlotPerEndpoint ==
    AddBuilt =>
        /\ Cardinality({m \in 1..Len(steps) : IsSlotCreate(steps[m])}) = Len(NODES)
        /\ \A k \in 1..Len(NODES) :
              Cardinality({m \in 1..Len(steps) :
                              /\ IsSlotCreate(steps[m])
                              /\ steps[m].sql[2] = SlotName(NODES[k])}) = 1

\* the value captured from a trigger step: the WAL position psql printed, in
\* single quotes
QuotedLsn == <<"'", "0", "/", "1A2B3C4D", "'">>

\* the command of the wait step for a trigger by node, with ref in the place
\* of the WAL position
WaitSyncSql(node, ref) ==
    <<WaitSyncHead, node.name, "', ">> \o ref
    \o <<"::pg_lsn, ">> \o Str(SYNC_EVENT_TIMEOUT) \o <<");">>

\* C11: for every endpoint flagged as a synchronization source, the built
\* add-node workflow holds a trigger step run on that endpoint, immediately
\* followed by a wait step run on the new endpoint whose placeholder is the
\* position of that trigger step; when the wait step is dispatched, its
\* command carries, in the place of the placeholder, the quoted WAL position
\* captured from that trigger.
C11_SourceTriggerThenWait ==
    AddBuilt =>
        \A k \in 1..Len(NODES) :
            Get(NODES[k], "source", FALSE) =>
                \E t \in 1..(Len(steps) - 1) :
                    /\ IsTrigger(steps[t])
                    /\ steps[t].conn_info = NODES[k].dsn
                    /\ steps[t + 1].sql = WaitSyncSql(NODES[k], Placeholder(t))
                    /\ steps[t + 1].conn_info = NEW_NODE.dsn
                    /\ Len(step_outputs) >= t => step_outputs[t] = QuotedLsn
                    /\ Len(calls) >= t + 1 =>
                          /\ calls[t + 1].sql = WaitSyncSql(NODES[k], QuotedLsn)
                          /\ calls[t + 1].conn_info = NEW_NODE.dsn

\* both endpoints are sources and the wait step of the second one has been
\* dispatched with the captured WAL position
C11_Witness ==
    /\ AddBuilt /\ SourceCount = 2
    /\ Len(calls) >= 10
    /\ IsTrigger(steps[9])
    /\ calls[10].sql = WaitSyncSql(NODES[2], QuotedLsn)

\* the tokens that follow each occurrence of a marker token in a command
TokensAfter(command, marker) ==
    {command[k + 1] : k \in {m \in 1..(Len(command) - 1) : command[m] = marker}}

\* C12 (as claimed): the last step of the add-node workflow polls the lag
\* from exactly the existing endpoints of the set, each as an origin, to the
\* new endpoint as the receiver, and ends only when every one of these lags
\* is known and under 59 seconds.
C12_LagPollsExistingEndpoints ==
    AddBuilt =>
        LET poll == steps[Len(steps)].sql
        IN  /\ IsLagPoll(steps[Len(steps)])
            /\ TokensAfter(poll, "origin_name = '")
                  = {NODES[k].name : k \in 1..Len(NODES)}
            /\ TokensAfter(poll, "' AND receiver_name = '") = {NEW_NODE.name}
            /\ Occurs(poll, <<"EXIT WHEN both NOT NULL AND both epoch < ">>
                             \o Str(59))

IsSubDrop(st) == Head(st.sql) = SubDropHead
IsNodeDrop(st) == Head(st.sql) = NodeDropHead

\* a remove-node workflow has been built
RemoveBuilt == op = "remove" /\ pc # "main"

\* C13: for N existing endpoints the remove-node workflow is N
\* drop-subscription steps on the target node (the subscriptions of the
\* target to each endpoint), then N drop-subscription steps, one on each
\* existing endpoint (the opposite direction), then one drop-node step on the
\* target; every step is ignorable, so whatever dispatches fail the run never
\* aborts, the steps are dispatched in list order, and a finished run has
\* dispatched all 2N+1 of them.
C13_RemoveNeverAborts ==
    RemoveBuilt =>
        LET N == Len(NODES) IN
        /\ Len(steps) = 2 * N + 1
        /\ \A k \in 1..N :
              /\ IsSubDrop(steps[k])
              /\ SubscriptionOf(steps[k]) = SubName(NODES[k].name, NEW_NODE.name)
              /\ steps[k].conn_info = NEW_NODE.dsn
              /\ IsSubDrop(steps[N + k])
              /\ SubscriptionOf(steps[N + k]) = SubName(NEW_NODE.name, NODES[k].name)
              /\ steps[N + k].conn_info = NODES[k].dsn
        /\ IsNodeDrop(steps[2 * N + 1])
        /\ steps[2 * N + 1].sql[2] = NEW_NODE.name
        /\ steps[2 * N + 1].conn_info = NEW_NODE.dsn
        /\ \A k \in 1..(2 * N + 1) : Ignorable(k)
        /\ pc \in {"loop", "wait", "done"}
        /\ exit_status \in {-1, 0}
        /\ \A k \in 1..Len(calls) :
              calls[k] = [sql |-> steps[k].sql, conn_info |-> steps[k].conn_info]
        /\ pc = "done" => (Len(calls) = 2 * N + 1 /\ exit_status = 0)

\* a remove-node run over two endpoints in which every dispatch failed
C13_Witness ==
    /\ RemoveBuilt /\ pc = "done"
    /\ Len(NODES) = 2
    /\ returns = <<1, 1, 1, 1, 1>>
    /\ Len(calls) = 5

\* C14 (as claimed): for each operation kind, building the workflow over an
\* empty endpoint set fails with a build error before any step is
\* dispatched: over an empty set no step is ever dispatched and the run
\* never ends in success.
C14_EmptySetFailsBuild ==
    NODES = <<>> =>
        /\ calls = <<>>
        /\ pc # "done"
        /\ exit_status # 0

IsDigit(c) == \E d \in 1..Len(Digit) : Digit[d] = c

DigitValue(c) == (CHOOSE d \in 1..Len(Digit) : Digit[d] = c) - 1

\* the number written by the run of digits that begins at position q of
\* text, read onto acc
RECURSIVE NumberAt(_, _, _)
NumberAt(text, q, acc) ==
    IF q > Len(text) \/ ~IsDigit(text[q]) THEN acc
    ELSE NumberAt(text, q + 1, acc * 10 + DigitValue(text[q]))

\* the positions of text where a placeholder begins: "$" and then a digit
PlaceholderStarts(text) ==
    {q \in 1..(Len(text) - 1) : text[q] = "$" /\ IsDigit(text[q + 1])}

\* C15: in every built add-node workflow, every placeholder "$N" in the
\* command of the step at position p has 1 <= N < p: no step refers to
\* itself or to a later step.
C15_ReferencesPointBackward ==
    AddBuilt =>
        \A p \in 1..Len(steps) :
            \A q \in PlaceholderStarts(steps[p].sql) :
                LET N == NumberAt(steps[p].sql, q + 1, 0)
                IN  1 <= N /\ N < p

\* a built workflow with two sources: step 4 refers to step 2, step 8 to
\* step 7 and step 10 to step 9
C15_Witness ==
    /\ AddBuilt /\ Len(steps) = 11
    /\ {NumberAt(steps[4].sql, q + 1, 0) : q \in PlaceholderStarts(steps[4].sql)} = {2}
    /\ {NumberAt(steps[8].sql, q + 1, 0) : q \in PlaceholderStarts(steps[8].sql)} = {7}
    /\ {NumberAt(steps[10].sql, q + 1, 0) : q \in PlaceholderStarts(steps[10].sql)} = {9}

\* a workflow has been built and handed to execute_steps
Built == op \in {"add", "remove", "cross", "uncross"} /\ pc \notin {"main", "crash"}

\* C16: for every built workflow (cross-wire, uncross-wire, add-node,
\* remove-node) the step numbers are 1, 2, ..., n in list order with no gap
\* and no repeat: the number a cross-wire or uncross-wire step carries is its
\* position, the k-th log line of a run is the line of the k-th step and
\* bears the number k, and the value an add-node or remove-node step leaves
\* for later references is recorded under its position.
C16_StepNumbersContiguous ==
    Built =>
        /\ op \in {"cross", "uncross"} =>
              \A k \in 1..Len(steps) : Get(steps[k], "step_num", 0) = k
        /\ Len(log) <= Len(steps)
        /\ \A k \in 1..Len(log) :
              /\ log[k].step_number = k
              /\ log[k].description = steps[k].description
        /\ (op \in {"add", "remove"} /\ pc = "wait") => Len(step_outputs) = i - 1
        /\ (op \in {"add", "remove"} /\ pc \in {"loop", "done"}) =>
              (Len(step_outputs) = i - 1 /\ Len(log) = i - 1)

\* an uncross-wire run over three endpoints that logged its nine steps
C16_Witness ==
    /\ op = "uncross" /\ pc = "done"
    /\ Len(NODES) = 3
    /\ Len(log) = 9
    /\ log[9].step_number = 9

\* C17: in an add-node or remove-node run the steps execute in strict
\* sequence with no retry: the k-th dispatch of the run is the dispatch of
\* step k (each step is dispatched at most once), at most one dispatch is
\* outstanding, and when step k is dispatched the dispatch of every step
\* 1..k-1 has returned and was classified as succeeded or failed-ignored.
C17_StrictSequenceNoRetry ==
    op \in {"add", "remove"} =>
        /\ Len(calls) <= Len(steps)
        /\ \A k \in 1..Len(calls) :
              /\ calls[k].conn_info = steps[k].conn_info
              /\ Len(step_outputs) >= k - 1
              /\ calls[k].sql = ResolvePlaceholders(steps[k].sql,
                                                    SubSeq(step_outputs, 1, k - 1))
        /\ Len(returns) = IF pc = "wait" THEN Len(calls) - 1 ELSE Len(calls)
        /\ Len(log) = Len(returns)
        /\ \A k \in 1..(Len(calls) - 1) :
              /\ k <= Len(returns)
              /\ returns[k] = 0 \/ Ignorable(k)
              /\ log[k].status = IF returns[k] = 0 THEN "OK" ELSE "IGNORED"

\* an add-node run dispatched its eleven steps, two of them failed and ignored
C17_Witness ==
    /\ op = "add" /\ pc = "done"
    /\ Len(calls) = 11
    /\ returns[4] = 1 /\ returns[8] = 1
    /\ log[4].status = "IGNORED"

\* the results map at the points the code reads and writes it: when the
\* command of step i has been resolved and dispatched it holds the keys
\* 1..i-1, and an entry exists only for a step whose dispatch has returned
ResultsKeysInStep ==
    op \in {"add", "remove"} =>
        /\ pc = "wait" => DOMAIN step_outputs = 1..(i - 1)
        /\ pc = "loop" => DOMAIN step_outputs = 1..(i - 1)
        /\ Len(step_outputs) <= Len(returns)
        /\ Len(returns) <= Len(calls)

\* a step of the run leaves every entry of the results map as it is and
\* adds at most the entry of the step whose dispatch returns
ResultsEntriesKept ==
    op \in {"add", "remove"} =>
        /\ \A k \in DOMAIN step_outputs :
              k \in DOMAIN step_outputs' /\ step_outputs'[k] = step_outputs[k]
        /\ step_outputs' # step_outputs =>
              /\ pc = "wait"
              /\ DOMAIN step_outputs' = DOMAIN step_outputs \cup {i}
              /\ Len(returns') = i

\* C18: the results map is write-once: when the command of step i is
\* resolved the map holds exactly the keys 1..i-1, the entry of step i is
\* written only after the dispatch of step i has returned, and no operation
\* changes or removes an entry once written.
C18_ResultsWriteOnce == []ResultsKeysInStep /\ [][ResultsEntriesKept]_vars

\* the map holds an empty entry (an ignored failure) and, written after it,
\* a quoted WAL position
C18_Witness ==
    /\ op = "add" /\ Len(step_outputs) >= 7
    /\ step_outputs[4] = <<>>
    /\ step_outputs[7] = QuotedLsn

\* the outcome tag of a dispatch of step k that returned code
TagFor(k, code) ==
    IF code = 0 THEN "OK" ELSE IF Ignorable(k) THEN "IGNORED" ELSE "FAILED"

\* C19: every dispatched step produces exactly one log line, printed when
\* its dispatch has returned, that carries the step's number, its endpoint
\* name, its description and one outcome tag: OK exactly when the dispatch
\* returned zero, IGNORED exactly when it returned non-zero on an ignorable
\* step, FAILED exactly when it returned non-zero on a step that is not
\* ignorable.
C19_OneLogLinePerDispatch ==
    op \in {"add", "remove", "cross", "uncross"} =>
        /\ Len(log) = Len(returns)
        /\ Len(calls) = IF pc = "wait" THEN Len(log) + 1 ELSE Len(log)
        /\ \A k \in 1..Len(log) :
              /\ log[k].step_number = k
              /\ log[k].node_name = steps[k].node_name
              /\ log[k].node_name # ""
              /\ log[k].description = steps[k].description
              /\ log[k].status = TagFor(k, returns[k])

\* an add-node run whose log holds the three tags: step 1 succeeded, step 4
\* failed and was ignored, the last dispatched step failed and ended the run
C19_Witness ==
    /\ op = "add" /\ pc = "exit"
    /\ Len(log) >= 5
    /\ log[1].status = "OK"
    /\ log[4].status = "IGNORED"
    /\ log[Len(log)].status = "FAILED"

\* some dispatch of the run returned non-zero on a step that is not ignorable
SomeFatalFailure ==
    \E k \in 1..Len(returns) : returns[k] # 0 /\ ~Ignorable(k)

\* C20 (as claimed): an add-node or remove-node process over a non-empty
\* endpoint set exits with status 0 exactly when every step was dispatched
\* and no step that is not ignorable failed, and exits with a non-zero
\* status exactly when some step that is not ignorable failed.
C20_ExitStatusReflectsFailures ==
    (op \in {"add", "remove"} /\ NODES # <<>> /\ exit_status # -1) =>
        /\ exit_status = 0 <=>
              (pc = "done" /\ Len(calls) = Len(steps) /\ ~SomeFatalFailure)
        /\ exit_status # 0 <=> SomeFatalFailure

\* the number of reads of the node catalog made so far
CatalogReads ==
    Cardinality({k \in 1..Len(calls) : calls[k].sql = <<CatalogSql>>})

\* C21 (as claimed): in every invocation of the add/remove node script the
\* node catalog is read exactly once, before the first workflow step is
\* built: once the load is over, exactly one read has been made, and no
\* workflow step exists before it.
C21_CatalogReadOnceBeforeBuild ==
    /\ CatalogReads <= 1
    /\ steps # <<>> => CatalogReads = 1
    /\ pc # "load" => CatalogReads = 1

\* C30 (as claimed): loading the add/remove node script always completes:
\* every name read while the module initialises is already bound when the
\* statement runs, so no load ends in a NameError.
C30_LoadCompletes == pc # "NameError"

\* an uncross-wire workflow has been built
UncrossBuilt == op = "uncross" /\ pc # "main"

\* the name a drop step carries
DroppedNameOf(st) == st.sql[2]
CreatedNodeOf(st) == st.sql[2]

\* drop step d undoes create step c: same subscription (or node) name and
\* the same target endpoint
Undoes(d, c) ==
    \/ /\ IsSubDrop(d) /\ IsSubCreate(c)
       /\ DroppedNameOf(d) = SubscriptionOf(c)
       /\ d.conn_info = c.conn_info
    \/ /\ IsNodeDrop(d) /\ IsNodeCreate(c)
       /\ DroppedNameOf(d) = CreatedNodeOf(c)
       /\ d.conn_info = c.conn_info

\* C22: for N endpoints with distinct names the uncross-wire workflow is
\* exactly N*(N-1) drop-subscription steps followed by N drop-node steps,
\* and it drops exactly what cross-wire creates: every drop step undoes
\* exactly one create-subscription or create-node step of the cross-wire
\* workflow over the same endpoints, and every such create step is undone
\* by exactly one drop step.
C22_UncrossDropsWhatCrossCreates ==
    UncrossBuilt =>
        LET N == Len(NODES)
            created == cross_node_steps(NODES)
            creates == {c \in 1..Len(created) :
                           IsSubCreate(created[c]) \/ IsNodeCreate(created[c])}
        IN  /\ Len(steps) = N * (N - 1) + N
            /\ \A k \in 1..(N * (N - 1)) : IsSubDrop(steps[k])
            /\ \A k \in (N * (N - 1) + 1)..Len(steps) : IsNodeDrop(steps[k])
            /\ \A k \in 1..Len(steps) :
                  Cardinality({c \in creates : Undoes(steps[k], created[c])}) = 1
            /\ \A c \in creates :
                  Cardinality({k \in 1..Len(steps) : Undoes(steps[k], created[c])}) = 1

\* three endpoints torn down: six subscriptions dropped, then three nodes
C22_Witness ==
    /\ UncrossBuilt
    /\ Len(NODES) = 3
    /\ Len(calls) = 9
    /\ IsSubDrop(steps[6]) /\ IsNodeDrop(steps[7])
    /\ calls[1].sql = sub_drop("sub_n2_n1")

\* the stages of a build the compile command goes through after the source
\* has been located
BuildStages == <<"configure", "make", "make install">>

\* the build commands invoked so far, in order
RECURSIVE BuildCalls(_)
BuildCalls(cs) ==
    IF cs = <<>> THEN <<>>
    ELSE IF \E k \in 1..Len(BuildStages) : BuildStages[k] = Head(cs)
         THEN <<Head(cs)>> \o BuildCalls(Tail(cs))
         ELSE BuildCalls(Tail(cs))

\* a stage of the compile command has failed: the source was not found or
\* could not be extracted, or a build stage returned non-zero
CompileStageFailed ==
    \/ \E k \in 1..Len(stdout) : stdout[k] = "FAILURE: source"
    \/ \E k \in 1..Len(calls) :
          /\ returns[k] # 0
          /\ calls[k] = "tar" \/ \E j \in 1..Len(BuildStages) : BuildStages[j] = calls[k]

\* C23 (as claimed): in the compile command of both scripts the stages run
\* in the order (extract or locate source,) configure, make, make install;
\* once a stage has failed no later stage is run, the success message is
\* not printed, and the process exits with a non-zero status.
C23_CompileStopsAndFailsOnStageFailure ==
    op = "compile" =>
        /\ BuildCalls(calls) = SubSeq(BuildStages, 1, Len(BuildCalls(calls)))
        /\ \A k \in 1..Len(calls) : calls[k] = "tar" => k = 1
        /\ CompileStageFailed =>
              /\ \A k \in 1..Len(calls) : returns[k] # 0 /\ calls[k] # "make distclean"
                                              => k = Len(calls)
              /\ \A k \in 1..Len(stdout) : stdout[k] # SuccessMessage(input.script)
              /\ pc \in {"done", "exit"}
              /\ exit_status # 0

\* the phases of --all in the order of its help text
HelpOrder == <<"stop", "cleanup", "destroy", "init", "conf">>

HelpRank(action) == CHOOSE k \in 1..Len(HelpOrder) : HelpOrder[k] = action

InHelp(action) == \E k \in 1..Len(HelpOrder) : HelpOrder[k] = action

\* C24 (as claimed): --all performs its phases in the order of its help
\* text, stop, cleanup, destroy, init, conf: of two operations on the same
\* node that the help text names, the one performed first is not later in
\* the help text's order.
C24_AllFollowsHelpOrder ==
    op = "all" =>
        \A k, l \in 1..Len(calls) :
            /\ k < l
            /\ calls[k].node = calls[l].node
            /\ InHelp(calls[k].action) /\ InHelp(calls[l].action)
            => HelpRank(calls[k].action) <= HelpRank(calls[l].action)

\* the positions of the uncommented lines that assign key
Assigning(lines, key) ==
    {k \in 1..Len(lines) : lines[k].key = key /\ ~lines[k].commented}

\* the value in effect for key: that of the last uncommented assignment
InEffect(lines, key) ==
    LET at == Assigning(lines, key)
    IN  lines[CHOOSE k \in at : \A j \in at : j <= k].value

\* C25 (as claimed): after modify_postgresql_conf has returned True, every
\* key of settings is in effect with the requested formatted value: the
\* last uncommented line assigning the key carries that value.
C25_SettingsInEffect ==
    op = "modify_postgresql_conf" /\ pc = "returned" /\ returns = <<TRUE>> =>
        \A k \in 1..Len(input.settings) :
            /\ Assigning(fs.conf, input.settings[k].key) # {}
            /\ InEffect(fs.conf, input.settings[k].key)
                   = FormatValue(input.settings[k].value)

\* a text carries the token
Carries(text, token) == \E k \in 1..Len(text) : text[k] = token

\* C26 (as claimed): during a replication setup run the replication
\* password never appears in an emitted log record: no record's text
\* carries the password that was given.
C26_PasswordNeverLogged ==
    input.replication_password # None =>
        \A k \in 1..Len(log) : ~Carries(log[k].text, input.replication_password)

\* the replica data path is in the way: not a directory, or a directory
\* with entries
ReplicaPathInTheWay ==
    \/ fs.replica.kind = "file"
    \/ fs.replica.kind = "dir" /\ fs.replica.entries # {}

\* C27: perform_pg_basebackup never invokes pg_basebackup when the replica
\* data path exists and is a non-empty directory or is not a directory:
\* its step from the pre-check returns False, executes no command and
\* leaves the path as it was, and the function is then over.
C27_NoBackupOverExistingData ==
    [][pc = "precheck" /\ ReplicaPathInTheWay
         => /\ returns' = Append(returns, FALSE)
            /\ calls' = calls
            /\ fs' = fs
            /\ pc' \in {"returned", "exit"}]_vars

\* a call on a directory holding a cluster has returned False: nothing was
\* executed and the directory still holds PG_VERSION
C27_Witness ==
    /\ op = "perform_pg_basebackup" /\ pc = "returned"
    /\ returns = <<FALSE>>
    /\ calls = <<>>
    /\ fs.replica = [kind |-> "dir", entries |-> {"PG_VERSION"}]

\* the data directory exists and holds files
DataDirNotEmpty == fs.exists /\ DOMAIN fs.files # {}

\* C28: the initdb command of both scripts refuses a data directory that
\* exists and is not empty: its step from the start invokes no command,
\* leaves the directory and its files as they were, and ends the process
\* with a non-zero status.
C28_InitdbRefusesNonEmptyDataDir ==
    [][op = "initdb" /\ pc = "main" /\ DataDirNotEmpty
         => /\ calls' = <<>>
            /\ fs' = fs
            /\ pc' = "exit"
            /\ exit_status' > 0]_vars

\* scripts/pg_script.py has refused a directory that holds a configured
\* cluster, with the initdb binary in place
C28_Witness ==
    /\ op = "initdb" /\ pc = "exit" /\ exit_status = 1
    /\ input.script = "scripts/pg_script.py"
    /\ fs.initdb
    /\ DOMAIN fs.files = DataFiles
    /\ \A f \in DataFiles : fs.files[f] = <<"old">>
    /\ calls = <<>>

\* an uncommented line of the file equals the replication entry or covers
\* it: a host line for the same database or all, the same user or all, the
\* same address or any address, with scram-sha-256, md5 or trust
EntryPresentOrCovered ==
    \E k \in 1..Len(fs.hba) :
        LET l == fs.hba[k]
        IN  /\ ~l.commented
            /\ Len(l.parts) >= 5
            /\ l.parts[1] = "host"
            /\ l.parts[2] = input.database \/ l.parts[2] = "all"
            /\ l.parts[3] = input.replication_user \/ l.parts[3] = "all"
            /\ l.parts[4] = input.replica_address
                  \/ l.parts[4] \in {"all", "0.0.0.0/0", "::/0"}
            /\ l.parts[5] \in {"scram-sha-256", "md5", "trust"}

\* C29: configure_pg_hba_for_replication is idempotent and minimal: a call
\* appends the replication entry, and nothing else, only when no
\* uncommented line equals or covers it; otherwise it leaves the file
\* unchanged; and a repeated call with the same arguments changes nothing,
\* so that all calls together add at most one line.
C29_HbaIdempotentAndMinimal ==
    [][op = "configure_pg_hba_for_replication" /\ fs.exists
         => /\ EntryPresentOrCovered => fs' = fs
            /\ ~EntryPresentOrCovered =>
                  /\ fs'.hba = Append(fs.hba,
                         [commented |-> FALSE,
                          parts |-> <<"host", input.database, input.replication_user,
                                      input.replica_address, "scram-sha-256">>,
                          layout |-> "entry"])
                  /\ i = 0
            /\ i >= 1 => fs' = fs]_vars

\* two calls on a file whose only line is the entry with the method
\* reject: the entry was added by the first call and found by the second
C29_Witness ==
    /\ op = "configure_pg_hba_for_replication"
    /\ i = 2
    /\ returns = <<TRUE, TRUE>>
    /\ Len(fs.hba) = 2
    /\ Len(fs.hba[1].parts) = 5 /\ fs.hba[1].parts[5] = "reject"
    /\ fs.hba[2].layout = "entry" /\ ~fs.hba[2].commented
    /\ log = <<"Adding HBA entry", "No changes required">>

\* a step that creates an object or triggers a synchronization event
IsCreating(st) ==
    IsNodeCreate(st) \/ IsSubCreate(st) \/ IsSlotCreate(st) \/ IsTrigger(st)

\* C31: in an add-node run only the wait steps (wait-for-apply-worker,
\* wait-for-sync-event) are ignorable; a step is dispatched only if every
\* earlier create-node, create-subscription, create-slot and sync-trigger
\* step returned zero; no subscription is created unless the new node was
\* created, and the lag-polling step runs only if all of them succeeded.
C31_OnlyWaitsIgnorable ==
    AddBuilt =>
        /\ \A k \in 1..Len(steps) :
              Get(steps[k], "ignore_error", FALSE)
                  <=> (IsWaitApply(steps[k]) \/ IsWaitSync(steps[k]))
        /\ \A k \in 1..Len(calls) : \A j \in 1..(k - 1) :
              IsCreating(steps[j]) => returns[j] = 0
        /\ \A k \in 1..Len(calls) :
              IsSubCreate(steps[k]) => (IsNodeCreate(steps[1]) /\ returns[1] = 0)
        /\ (Len(calls) = Len(steps) /\ IsLagPoll(steps[Len(steps)])) =>
              \A j \in 1..(Len(steps) - 1) :
                  returns[j] = 0 \/ IsWaitApply(steps[j]) \/ IsWaitSync(steps[j])

\* the lag poll was dispatched although both kinds of wait step had failed
C31_Witness ==
    /\ AddBuilt
    /\ Len(calls) = Len(steps)
    /\ \E j \in 1..Len(returns) : IsWaitApply(steps[j]) /\ returns[j] # 0
    /\ \E j \in 1..Len(returns) : IsWaitSync(steps[j]) /\ returns[j] # 0
    /\ \E j \in 1..Len(returns) : IsSlotCreate(steps[j]) /\ returns[j] = 0

\* C32 (as claimed): the add-node workflow can be built for every non-empty
\* set of existing endpoints, a single endpoint included: construction
\* raises no error, and once it is over a workflow has been handed on.
C32_AddBuildsForEveryNonEmptySet ==
    (op = "add" /\ Len(NODES) >= 1) =>
        /\ pc # "crash"
        /\ pc # "main" => steps # <<>>

\* C33 (as claimed): substitution is single-pass with respect to substituted
\* text: whatever the captured values hold, "$" followed by digits included,
\* resolving a command against a results map gives the command with each
\* original "$N" replaced by results[N], no inserted value being scanned.
C33_InsertedTextNeverScanned ==
    (op = "subst" /\ pc # "loop") =>
        LET cmd == steps[1].sql
        IN  ResolvePlaceholders(cmd, step_outputs) =
                EachReferenceReplaced(cmd, step_outputs)

\* the built-in that drops a replication slot; no generator of zodan.py emits it
SlotDropHead == "SELECT pg_drop_replication_slot('"
IsSlotDrop(st) == Head(st.sql) = SlotDropHead

\* whether step rm undoes, on the same endpoint, what step st creates
Reverses(rm, st) ==
    /\ rm.conn_info = st.conn_info
    /\ \/ IsNodeCreate(st) /\ IsNodeDrop(rm) /\ rm.sql[2] = st.sql[2]
       \/ IsSubCreate(st) /\ IsSubDrop(rm) /\ SubscriptionOf(rm) = SubscriptionOf(st)
       \/ IsSlotCreate(st) /\ IsSlotDrop(rm) /\ rm.sql[2] = st.sql[2]

\* C34 (as claimed): remove-node is the reverse workflow of add-node over the
\* same endpoint set: for every object an add-node workflow creates (the new
\* node, each subscription by name and endpoint, each replication slot by
\* name and endpoint) the remove-node workflow holds a step that drops that
\* object on the same endpoint.
C34_RemoveReversesAdd ==
    (RemoveBuilt /\ ~AddNodeRaises(NODES)) =>
        LET added == add_node_steps(NODES) IN
        \A k \in 1..Len(added) :
            (IsNodeCreate(added[k]) \/ IsSubCreate(added[k]) \/ IsSlotCreate(added[k]))
                => \E r \in 1..Len(steps) : Reverses(steps[r], added[k])

\* C34, the part that holds: the node and every subscription of the add-node
\* workflow have their drop step in the remove-node workflow
C34_NodeAndSubscriptionsReversed ==
    (RemoveBuilt /\ ~AddNodeRaises(NODES)) =>
        LET added == add_node_steps(NODES) IN
        \A k \in 1..Len(added) :
            (IsNodeCreate(added[k]) \/ IsSubCreate(added[k]))
                => \E r \in 1..Len(steps) : Reverses(steps[r], added[k])

\* whether the two ends of the subscription a step creates or drops are one
\* endpoint: it is named sub_<e>_<e>, or it is created on its own provider
SameEnds(st) ==
    \/ \E e \in {NEW_NODE.name} \cup {NODES[k].name : k \in 1..Len(NODES)} :
          SubscriptionOf(st) = SubName(e, e)
    \/ IsSubCreate(st) /\ ProviderDsnOf(st) = DsnStr(st.conn_info)

\* C35 (as claimed): for every endpoint set that node discovery can return,
\* a catalog that already lists the new node included, no step of an add-node
\* or remove-node workflow creates or drops a subscription whose two ends are
\* the same endpoint.
C35_NoSelfSubscription ==
    (AddBuilt \/ RemoveBuilt) =>
        \A k \in 1..Len(steps) :
            (IsSubCreate(steps[k]) \/ IsSubDrop(steps[k])) => ~SameEnds(steps[k])

\* the step banners of a log, in the order logged
StepBannersOf(records) ==
    SelectSeq(records, LAMBDA r : \E n \in 1..6 : r.text = StepBanner(n))

SuccessRecord ==
    Record("INFO", <<"PostgreSQL replication setup script orchestration finished successfully.">>)

\* C36: a replication setup run attempts its steps in the order
\* create-replication-user, modify postgresql.conf, configure pg_hba.conf,
\* create replication slot, restart primary service, base backup; if
\* create-user, configure-hba, create-slot, restart or base-backup fails, the
\* run exits with status 1 and no later step is attempted; the final success
\* message is logged only when all of those succeeded.
C36_StepsInOrderCriticalAbort ==
    op = "main" =>
        LET banners == StepBannersOf(log)
            done == Len(returns)
        IN  /\ Len(banners) <= 6 /\ done <= 6
            /\ \A n \in 1..Len(banners) : banners[n].text = StepBanner(n)
            /\ done <= Len(banners) /\ Len(banners) <= done + 1
            /\ calls # <<>> => Len(banners) = 6
            /\ \A n \in 1..done :
                  (~returns[n] /\ n \in {1, 3, 4, 5, 6}) =>
                      /\ pc = "exit" /\ exit_status = 1
                      /\ done = n /\ Len(banners) = n
                      /\ (n < 6 => calls = <<>>)
            /\ (\E k \in 1..Len(log) : log[k] = SuccessRecord) =>
                  /\ done = 6
                  /\ \A n \in {1, 3, 4, 5, 6} : returns[n]

\* step 2 failed and the run went on, step 4 failed and the run ended there
C36_Witness ==
    /\ op = "main" /\ returns = <<TRUE, FALSE, TRUE, FALSE>>
    /\ pc = "exit" /\ exit_status = 1
    /\ Len(StepBannersOf(log)) = 4

\* C37 (as claimed): a replication setup run never deletes the contents of a
\* pre-existing non-empty replica data directory: while the replica data
\* path is a directory with entries, no step of the run changes the
\* directory or runs pg_basebackup.
C37_ExistingReplicaDataKept ==
    [][(op = "main" /\ fs.replica.kind = "dir" /\ fs.replica.entries # {})
           => (fs'.replica = fs.replica /\ calls' = calls)]_vars

===========================================================================
